---- MODULE Spec2Model ----
(***************************************************************************)
(* Plugin discovery, path resolution, TTL cache and install / uninstall    *)
(* of src/unnamed/part_001 (the plugins module of the main process).       *)
(*                                                                         *)
(* Every exported async function is a call in a slot of `calls`.  A call   *)
(* advances one step at a time; a step is one I/O effect on shared state   *)
(* (the registry file, a directory of the plugin cache) or one synchronous *)
(* block that touches the module-level cache slots.  Reads of data that no *)
(* operation of the module ever writes (the marketplaces directory and the *)
(* manifests in it) are folded into the step that follows them.            *)
(*                                                                         *)
(* The TaskRunner of src/src/main/lib/tasks/task-runner.ts is the second   *)
(* part: its Map of tasks, and the callbacks of each child process as the  *)
(* steps.                                                                  *)
(***************************************************************************)
EXTENDS Integers, Sequences, FiniteSets, TLC

\* ------------------------------------------------------------------ bounds
MaxCalls == 2
MaxMut == 2
MaxEntries == 3
MaxOps == 4
MaxDirs == 2
\* chunks of output in a run of the task runner: enough to overflow the log
\* buffer of one task, and a few for runs with several tasks
MaxLogChunks == 501
MaxTaskChunks == 2

\* -------------------------------------------------------- program constants
CACHE_TTL_MS == 30000
MAX_LOG_LINES == 500

\* ------------------------------------------------------------- value spaces
Names == {"foo", "bar"}
\* the marketplace install and uninstall calls name
Mkts == {"acme"}
\* the names under the marketplaces directory, and of the manifests in them
MktDirs == {"acme", "beta", ".hidden"}
\* marketplace.name.startsWith(".")
StartsWithDot(name) == name \in {".hidden"}
Versions == {"0.0.0", "1.0.0"}
SrcKinds == {"none", "local", "url"}
TimePoints == {0, CACHE_TTL_MS - 1, CACHE_TTL_MS}
Slots == 1..MaxCalls

\* an empty / absent path string (falsy in the code)
NoPath == <<>>

\* `${pluginName}@${marketplace}`
Key(name, mkt) == <<name, "@", mkt>>
Keys == {Key(n, m) : n \in Names, m \in Mkts}

\* `${marketplaceJson.name}:${plugin.name}`
SourceId(mname, name) == <<mname, ":", name>>

\* path.resolve(marketplacePath, plugin.source) for the source "./<name>"
LocalPath(dir, name) == <<"marketplaces", dir, name>>
\* path.join(cacheBase, version), cacheBase = ~/.claude/plugins/cache/<mkt>/<name>
VersionedPath(mkt, name, version) == <<"cache", mkt, name, version>>
\* path.join(cacheBase, "_cloning")
TempDir(mkt, name) == <<"cache", mkt, name, "_cloning">>

LocalPaths == {LocalPath(d, n) : d \in MktDirs, n \in Names}
CachePaths == {VersionedPath(m, n, v) : m \in Mkts, n \in Names, v \in Versions}
TempPaths == {TempDir(m, n) : m \in Mkts, n \in Names}
\* the paths calls create or remove things at
AllPaths == {LocalPath(d, n) : d \in Mkts, n \in Names} \cup CachePaths \cup TempPaths

\* what a path holds: nothing, or a directory with the version its
\* package.json declares ("" when it has none) and the clone that made it
\* a JSON value: its kind and, for an object, its members
Atom(kind) == [k |-> kind, m |-> <<>>]
Obj(members) == [k |-> "obj", m |-> members]
\* a .mcp.json file: missing, not JSON, or a parsed value
NoDoc == [st |-> "missing", v |-> Atom("null")]
BadDoc == [st |-> "badjson", v |-> Atom("null")]
Doc(v) == [st |-> "ok", v |-> v]
\* Format A (flat): { "serverA": { ... } }
FlatA == Doc(Obj([n \in {"serverA"} |-> Obj(<<>>)]))

Absent == [ex |-> FALSE, ver |-> "", id |-> 0, mcp |-> NoDoc]
LocalDir(doc) == [ex |-> TRUE, ver |-> "", id |-> 0, mcp |-> doc]
CloneDir(v, i, doc) == [ex |-> TRUE, ver |-> v, id |-> i, mcp |-> doc]

\* fs.stat(p).then(s => s.isDirectory()).catch(() => false)
IsDir(d, p) == p \in DOMAIN d /\ d[p].ex

\* ---------------------------------------------------------------- registry
\* InstalledPluginsJson.plugins: per key, whether the key is present and its
\* array of InstalledPluginEntry (installPath, version)
NoEntries == [has |-> FALSE, seq |-> <<>>]
EmptyDoc == [k \in Keys |-> NoEntries]
\* an InstalledPluginEntry written at time t
EntryAt(p, v, t) ==
  [scope |-> "user", installPath |-> p, version |-> v, installedAt |-> t,
   lastUpdated |-> t]
Entry(p, v) == EntryAt(p, v, 0)

\* (variant: the first entry of a key taken instead of the last)
LoadFirstEntryPaths(doc) ==
  [k \in Keys |->
     IF doc[k].has /\ Len(doc[k].seq) > 0
       THEN doc[k].seq[1].installPath
       ELSE NoPath]

\* the Map of loadInstalledPluginPaths: a key maps to NoPath when the Map
\* has no such key (only truthy install paths are ever set)
LoadInstalledPluginPaths(doc) ==
  [k \in Keys |->
     IF doc[k].has /\ Len(doc[k].seq) > 0
       THEN doc[k].seq[Len(doc[k].seq)].installPath
       ELSE NoPath]

NoPaths == [k \in Keys |-> NoPath]

\* installedPaths.get(key): undefined for a key the Map does not hold
PathOf(paths, k) == IF k \in DOMAIN paths THEN paths[k] ELSE NoPath

\* the states of the file installed_plugins.json: it parses to a document with
\* a `plugins` object; it is missing; it cannot be read; it is not JSON; it
\* parses to null or to an object without `plugins`
RegStates == {"ok", "missing", "unreadable", "badjson", "unusable"}

\* loadInstalledPluginPaths(): any failure to read, parse or walk the document
\* gives the empty Map
InstalledPaths(st, doc) == IF st = "ok" THEN LoadInstalledPluginPaths(doc) ELSE NoPaths


\* ------------------------------------------------------------------- state
VARIABLES
  rootState,    \* the marketplaces directory: there, missing or unreadable
  manifests,    \* the marketplaces directory: per entry, in readdir order, its
                \* name, whether it is a directory, and its marketplace.json
  disk,         \* what each path of the plugin tree holds
  registry,     \* installed_plugins.json: the document it holds
  regState,     \* installed_plugins.json: whether it is there and parses
  pluginCache,  \* module-level cache slot of discoverInstalledPlugins
  mcpCache,     \* module-level cache slot of discoverPluginMcpServers
  now,          \* Date.now()
  calls,        \* the calls in flight, one per slot
  hist,         \* history: the install / uninstall calls that have returned
  regWrites,    \* history: number of writes of installed_plugins.json so far
  nclones,      \* history: number of git clones so far
  nops,         \* history: number of calls started so far
  ref,          \* history: per cache slot, what was last stored and returned
                \* since the last successful install, uninstall or clear
  faults,       \* whether file operations that the code tolerates may fail
  tasks,        \* TaskRunner: per task id, whether the Map holds it, and the
                \* RunningTask object the callbacks of its child close over
  procs,        \* TaskRunner: per task id, its child process, and history:
                \* the events emitted for it
  budget        \* chunks of output the child processes may still write

vars == <<rootState, manifests, disk, registry, regState, pluginCache, mcpCache, now, calls, hist,
          regWrites, nclones, nops, ref, faults, tasks, procs, budget>>

\* what no call of the plugins module changes
world == <<rootState, manifests, faults, tasks, procs, budget>>
\* what the task runner leaves alone
pluginState ==
  <<rootState, manifests, faults, disk, registry, regState, pluginCache, mcpCache, now,
    calls, hist, regWrites, nclones, nops, ref>>

\* a cache slot; `ver` is history: the registry write the payload was read at;
\* `scan` is history: when the scan the payload derives from completed
NoCache == [set |-> FALSE, payload |-> <<>>, timestamp |-> 0, ver |-> 0, scan |-> 0]

\* cache && Date.now() - cache.timestamp < CACHE_TTL_MS
\* (variant: the boundary included)
CacheHitInclusive(c, t) == c.set /\ t - c.timestamp <= CACHE_TTL_MS
\* (variant: the comparison inverted)
CacheHitInverted(c, t) == c.set /\ t - c.timestamp > CACHE_TTL_MS
CacheHit(c, t) == c.set /\ t - c.timestamp < CACHE_TTL_MS

IdleCall ==
  [kind |-> "idle", pc |-> "idle", mkt |-> "", name |-> "", idx |-> 0,
   acc |-> <<>>, paths |-> NoPaths, data |-> EmptyDoc, version |-> "",
   res |-> <<>>, ok |-> FALSE, path |-> NoPath, hit |-> FALSE,
   plugins |-> <<>>,
   h0 |-> 0, rver |-> 0, wv |-> 0, t0 |-> 0,
   exp |-> [set |-> FALSE, age |-> 0, sincePopulated |-> FALSE,
            sinceReturned |-> FALSE, payload |-> <<>>],
   was |-> FALSE, removed |-> FALSE, at |-> "", reg0 |-> <<"ok", EmptyDoc>>,
   read |-> TRUE, seq0 |-> <<>>, scan |-> 0, cloned |-> 0, moved |-> 0]

\* ------------------------------------------------------------ the traversal
\* an entry of the marketplaces directory that is a directory with a manifest
\* that parses to { name, plugins: [...] }
OkDir(dir, plugs) ==
  [dir |-> dir, isDir |-> TRUE, st |-> "ok", mname |-> dir, plugins |-> plugs]

\* what the manifest file of a marketplace directory may be: a document with a
\* plugins array; missing (ENOENT); unreadable (another I/O error); not JSON;
\* JSON null; a document whose `plugins` is not an array
ManifestStates == {"ok", "missing", "unreadable", "badjson", "null", "noarray"}

\* isDirentDirectory(marketplacesDir, marketplace)
IsDirentDirectory(dirent) == dirent.isDir

\* (variant: dot-prefixed names and files are scanned as well)
VisitedWhateverKind(dirent) == dirent.st = "ok"

\* the marketplaces whose entries the inner loop visits: not dot-prefixed, a
\* directory, with a manifest that is read, parses and has a plugins array
Visited(dirent) ==
  /\ ~StartsWithDot(dirent.dir)
  /\ IsDirentDirectory(dirent)
  /\ dirent.st = "ok"

\* the entries the loops over marketplaces and marketplaceJson.plugins visit,
\* in order, each with its marketplace directory and manifest name; `mi` is
\* the position of the marketplace
RECURSIVE WorkFrom(_, _)
WorkFrom(ms, i) ==
  IF i > Len(ms) THEN <<>>
  ELSE (IF Visited(ms[i])
          THEN [j \in 1..Len(ms[i].plugins) |->
                  [dir |-> ms[i].dir, mname |-> ms[i].mname, mi |-> i,
                   entry |-> ms[i].plugins[j]]]
          ELSE <<>>)
       \o WorkFrom(ms, i + 1)

WorkList == WorkFrom(manifests, 1)

\* a manifest entry that is JSON null: reading plugin.source throws
NullEntry == [name |-> "", src |-> "null"]
Throws(item) == item.entry = NullEntry

\* the first entry of the next marketplace after entry i
RECURSIVE NextMarketplace(_, _, _)
NextMarketplace(wl, i, j) ==
  IF j > Len(wl) \/ wl[j].mi # wl[i].mi THEN j ELSE NextMarketplace(wl, i, j + 1)

\* (variant: a throw of the entry's catch handler leaves the function)
AfterEntryUncaught(wl, i) ==
  IF Throws(wl[i]) THEN 0 ELSE i + 1

\* where discoverInstalledPlugins goes on after entry i: the next entry, or,
\* when the entry throws, the next marketplace: the catch handler of the entry
\* reads plugin.name, throws again, and the catch of the marketplace takes it
\* (0: the error leaves the function)
AfterEntry(wl, i) ==
  IF Throws(wl[i]) THEN NextMarketplace(wl, i, i + 1) ELSE i + 1

\* (variant: the two parts of `source` swapped)
PluginInfoSwapped(item, p) ==
  [name |-> item.entry.name, path |-> p,
   source |-> SourceId(item.entry.name, item.mname),
   marketplace |-> item.mname]

PluginInfo(item, p) ==
  [name |-> item.entry.name, path |-> p,
   source |-> SourceId(item.mname, item.entry.name),
   marketplace |-> item.mname]

\* steps 1 and 2 of the loop body: the registry path if it is a directory,
\* else the string source resolved against the marketplace directory
\* (variant: the registry path taken without the stat)
RegistryPathUnchecked(item, paths, d) == PathOf(paths, Key(item.entry.name, item.mname))

\* (variant: the key built from the directory name of the marketplace)
RegistryPathByDir(item, paths, d) ==
  LET ip == PathOf(paths, Key(item.entry.name, item.dir))
  IN  IF ip # NoPath /\ IsDir(d, ip) THEN ip ELSE NoPath

RegistryPath(item, paths, d) ==
  LET ip == PathOf(paths, Key(item.entry.name, item.mname))
  IN  IF ip # NoPath /\ IsDir(d, ip) THEN ip ELSE NoPath

FallbackPath(item, d) ==
  LET resolved == LocalPath(item.dir, item.entry.name)
  IN  IF item.entry.src = "local" /\ IsDir(d, resolved) THEN resolved ELSE NoPath

\* (variant: the local path tried before the registry path)
PluginPathLocalFirst(item, paths, d) ==
  IF FallbackPath(item, d) # NoPath
    THEN FallbackPath(item, d)
    ELSE RegistryPath(item, paths, d)

PluginPath(item, paths, d) ==
  IF RegistryPath(item, paths, d) # NoPath
    THEN RegistryPath(item, paths, d)
    ELSE FallbackPath(item, d)

\* (variant: without the `if (!plugin.source) continue`)
ScanEntryNoSourceCheck(item, paths, d) ==
  IF Throws(item) THEN <<>>
  ELSE IF PluginPath(item, paths, d) = NoPath THEN <<>>
  ELSE << PluginInfo(item, PluginPath(item, paths, d)) >>

\* one iteration of `for (const plugin of marketplaceJson.plugins)`: what it
\* pushes onto `plugins`
ScanEntry(item, paths, d) ==
  IF Throws(item) \/ item.entry.src = "none" THEN <<>>
  ELSE IF PluginPath(item, paths, d) = NoPath THEN <<>>
  ELSE << PluginInfo(item, PluginPath(item, paths, d)) >>

AvailablePlugin(item) ==
  [name |-> item.entry.name, marketplace |-> item.mname]

\* (variant: the registry not consulted)
AvailableEntryIgnoringRegistry(item, paths) ==
  IF item.entry.src # "url" THEN <<>> ELSE << AvailablePlugin(item) >>

\* one iteration of the loop of discoverAvailablePlugins; AvailableFrom is the
\* loops: an entry that throws (null) ends its marketplace, whose catch takes it
AvailableEntry(item, paths) ==
  IF item.entry.src # "url" THEN <<>>
  ELSE IF PathOf(paths, Key(item.entry.name, item.mname)) # NoPath THEN <<>>
  ELSE << AvailablePlugin(item) >>

RECURSIVE AvailableFrom(_, _, _)
AvailableFrom(wl, i, paths) ==
  IF i > Len(wl) THEN <<>>
  ELSE IF Throws(wl[i]) THEN AvailableFrom(wl, NextMarketplace(wl, i, i + 1), paths)
  ELSE AvailableEntry(wl[i], paths) \o AvailableFrom(wl, i + 1, paths)


\* ------------------------------------------------------------------- calls
AllIdle == \A t \in Slots : calls[t].kind = "idle"
LowestIdle(s) == calls[s].kind = "idle" /\ \A t \in Slots : t < s => calls[t].kind # "idle"
\* a call starts in the lowest free slot; `seq` keeps calls from overlapping
CanStart(s, seq) == LowestIdle(s) /\ (seq => AllIdle) /\ nops < MaxOps
MutInFlight == {t \in Slots : calls[t].kind \in {"I", "U"}}
Set(s, c) == calls' = [calls EXCEPT ![s] = c]
At(s, kind, pc) == calls[s].kind = kind /\ calls[s].pc = pc
\* a scan of discoverInstalledPlugins, called directly or by discoverPluginMcpServers
Scanning(s, pc) == calls[s].kind \in {"D", "M"} /\ calls[s].pc = pc

\* history: per slot ("D": plugin list, "M": mcp configs), the payload last
\* stored in it, when it was stored (tp) and when a call last returned it (tc)
NoRef == [set |-> FALSE, payload |-> <<>>, tp |-> 0, tc |-> 0]
NoRefs == [k \in {"D", "M"} |-> NoRef]
Populated(kind, payload) ==
  [ref EXCEPT ![kind] = [set |-> TRUE, payload |-> payload, tp |-> now, tc |-> now]]
ServedHit(kind) ==
  IF ref[kind].set THEN [ref EXCEPT ![kind].tc = now] ELSE ref
\* history: what holds of the slot when a call starts
Expected(kind) ==
  IF kind \in {"D", "M"} /\ ref[kind].set
    THEN [set |-> TRUE, age |-> now - ref[kind].tp,
          sincePopulated |-> now - ref[kind].tp < CACHE_TTL_MS,
          sinceReturned |-> now - ref[kind].tc < CACHE_TTL_MS,
          payload |-> ref[kind].payload]
    ELSE [set |-> FALSE, age |-> 0, sincePopulated |-> FALSE,
          sinceReturned |-> FALSE, payload |-> <<>>]
\* a fresh call record
NewCall(kind, pc) ==
  [IdleCall EXCEPT !.kind = kind, !.pc = pc, !.h0 = Len(hist), !.t0 = now,
                   !.exp = Expected(kind), !.reg0 = <<regState, registry>>]

\* (variant: the caches left as they are)
ClearNone == pluginCache' = pluginCache /\ mcpCache' = mcpCache
\* clearPluginCache()
ClearPluginCache == pluginCache' = NoCache /\ mcpCache' = NoCache

\* ---- discoverInstalledPlugins
\* the cache check; on a miss the marketplaces directory is listed and the
\* registry read is started; when fs.access or fs.readdir fails the empty list
\* is stored and returned
StartD(s, seq) ==
  /\ CanStart(s, seq)
  /\ nops' = nops + 1
  /\ IF CacheHit(pluginCache, now)
       THEN /\ Set(s, [NewCall("D", "done") EXCEPT !.hit = TRUE,
                           !.res = pluginCache.payload, !.rver = pluginCache.ver,
                           !.scan = pluginCache.scan])
            /\ ref' = ServedHit("D")
       ELSE /\ Set(s, NewCall("D", IF rootState = "ok" THEN "load" ELSE "finish"))
            /\ ref' = ref
  /\ UNCHANGED <<world, disk, registry, regState, pluginCache, mcpCache, now, hist,
                 regWrites, nclones>>

\* await loadInstalledPluginPaths()
LoadD(s) ==
  /\ Scanning(s, "load")
  /\ Set(s, [calls[s] EXCEPT !.paths = InstalledPaths(regState, registry),
               !.rver = regWrites, !.idx = 1,
               !.pc = IF Len(WorkList) = 0 THEN "finish" ELSE "entry"])
  /\ UNCHANGED <<world, disk, registry, regState, pluginCache, mcpCache, now, hist,
                 regWrites, nclones, nops, ref>>

\* one manifest entry: the fs.stat calls and the push
EntryD(s) ==
  /\ Scanning(s, "entry")
  /\ Set(s, [calls[s] EXCEPT
               !.acc = @ \o ScanEntry(WorkList[calls[s].idx], calls[s].paths, disk),
               !.idx = AfterEntry(WorkList, calls[s].idx),
               !.pc = IF AfterEntry(WorkList, calls[s].idx) = 0 THEN "rejected"
                      ELSE IF AfterEntry(WorkList, calls[s].idx) > Len(WorkList)
                        THEN "finish" ELSE "entry"])
  /\ UNCHANGED <<world, disk, registry, regState, pluginCache, mcpCache, now, hist,
                 regWrites, nclones, nops, ref>>

\* pluginCache = { plugins, timestamp: Date.now() }; return plugins
FinishD(s) ==
  /\ Scanning(s, "finish")
  /\ pluginCache' = [set |-> TRUE, payload |-> calls[s].acc, timestamp |-> now,
                     ver |-> calls[s].rver, scan |-> now]
  /\ IF calls[s].kind = "D"
       THEN Set(s, [calls[s] EXCEPT !.pc = "done", !.res = calls[s].acc, !.scan = now])
       ELSE Set(s, [calls[s] EXCEPT !.pc = "mcp", !.plugins = calls[s].acc,
                      !.acc = <<>>, !.idx = 1, !.scan = now])
  /\ ref' = Populated("D", calls[s].acc)
  /\ UNCHANGED <<world, disk, registry, regState, mcpCache, now, hist, regWrites, nclones, nops>>

\* ---- discoverAvailablePlugins
StartA(s, seq) ==
  /\ CanStart(s, seq)
  /\ nops' = nops + 1
  /\ Set(s, NewCall("A", "load"))
  /\ UNCHANGED <<world, disk, registry, regState, pluginCache, mcpCache, now, hist,
                 regWrites, nclones, ref>>

\* await loadInstalledPluginPaths(), then the loops, which read manifests only
LoadA(s) ==
  /\ At(s, "A", "load")
  /\ Set(s, [calls[s] EXCEPT !.paths = InstalledPaths(regState, registry),
               !.rver = regWrites, !.pc = "done",
               !.res = IF rootState = "ok"
                         THEN AvailableFrom(WorkList, 1, InstalledPaths(regState, registry))
                         ELSE <<>>])
  /\ UNCHANGED <<world, disk, registry, regState, pluginCache, mcpCache, now, hist,
                 regWrites, nclones, nops, ref>>

\* a call of the exported clearPluginCache(): synchronous
ClearCall ==
  /\ nops < MaxOps
  /\ Len(hist) + Cardinality(MutInFlight) < MaxMut
  /\ nops' = nops + 1
  /\ ClearPluginCache
  /\ ref' = NoRefs
  /\ hist' = Append(hist, [kind |-> "C", mkt |-> "", name |-> "", ok |-> TRUE,
                           path |-> NoPath, wv |-> 0, fresh |-> FALSE,
                           was |-> FALSE, removed |-> FALSE])
  /\ UNCHANGED <<world, disk, registry, regState, now, calls, regWrites, nclones>>

\* the caller takes the result
Return(s) ==
  /\ calls[s].pc = "done"
  /\ Set(s, IdleCall)
  /\ UNCHANGED <<world, disk, registry, regState, pluginCache, mcpCache, now, hist,
                 regWrites, nclones, nops, ref>>

\* time passes
Tick ==
  /\ \E t \in TimePoints : t > now /\ now' = t
  /\ UNCHANGED <<world, disk, registry, regState, pluginCache, mcpCache, calls, hist,
                 regWrites, nclones, nops, ref>>


\* history: a scan of the present registry and disk would return the plugin
Discovered(m, n) ==
  \E i \in 1..Len(WorkList) :
    /\ WorkList[i].mname = m
    /\ WorkList[i].entry.name = n
    /\ ScanEntry(WorkList[i], InstalledPaths(regState, registry), disk) # <<>>

\* ---- installPlugin(marketplace, pluginName, sourceUrl)
\* what package.json of a clone may declare: no usable version, or a version
PkgVersions == {"", "1.0.0"}

\* let version = "0.0.0"; if (typeof pkg.version === "string") version = pkg.version
ReadVersion(content) ==
  IF content.ex /\ content.ver # "" THEN content.ver ELSE "0.0.0"

\* history: a scan of the present registry and disk would resolve the plugin
\* through its registry entry
ResolvedByRegistry(m, n) ==
  \E i \in 1..Len(WorkList) :
    /\ WorkList[i].mname = m
    /\ WorkList[i].entry.name = n
    /\ WorkList[i].entry.src # "none"
    /\ RegistryPath(WorkList[i], InstalledPaths(regState, registry), disk) # NoPath

\* history: what a returned install / uninstall call did
Outcome(c, ok, p) ==
  [kind |-> c.kind, mkt |-> c.mkt, name |-> c.name, ok |-> ok, path |-> p,
   wv |-> c.wv, fresh |-> CacheHit(pluginCache, now), was |-> c.was,
   removed |-> c.removed]

\* (variant: the catch block reports success)
FailSwallowed(s) ==
  /\ Set(s, [calls[s] EXCEPT !.pc = "done", !.ok = TRUE, !.at = calls[s].pc])
  /\ hist' = Append(hist, Outcome(calls[s], TRUE, NoPath))
  /\ ref' = ref

\* (variant: no catch block, the promise rejects)
FailRejects(s) ==
  /\ Set(s, [calls[s] EXCEPT !.pc = "rejected", !.at = calls[s].pc])
  /\ hist' = hist
  /\ ref' = ref

\* the catch block: return { success: false, error }; `at` is history: the
\* step that threw
Fail(s) ==
  /\ Set(s, [calls[s] EXCEPT !.pc = "done", !.ok = FALSE, !.at = calls[s].pc])
  /\ hist' = Append(hist, Outcome(calls[s], FALSE, NoPath))
  /\ ref' = ref

\* the outcomes of a file operation that may fail
Outcomes == IF faults THEN BOOLEAN ELSE {TRUE}

\* what readInstalledPluginsJson() returns and whether data.plugins[key] can
\* be read of it: a file that is missing or is not JSON gives the default
\* document; a file that parses to null or to an object without `plugins` is
\* returned as it is, and reading data.plugins[key] of it throws; when
\* fs.readFile fails for another reason (`read` false) the default document is
\* returned as well
\* (variant: only a missing file gives the default document)
ReadRaisesUnlessMissing(st, doc, read) ==
  CASE st = "missing" -> [usable |-> TRUE, doc |-> EmptyDoc]
    [] st = "ok" /\ read -> [usable |-> TRUE, doc |-> doc]
    [] OTHER -> [usable |-> FALSE, doc |-> EmptyDoc]

ReadInstalledPluginsJson(st, doc, read) ==
  CASE ~read -> [usable |-> TRUE, doc |-> EmptyDoc]
    [] st = "ok" -> [usable |-> TRUE, doc |-> doc]
    [] st \in {"missing", "unreadable", "badjson"} -> [usable |-> TRUE, doc |-> EmptyDoc]
    [] OTHER -> [usable |-> FALSE, doc |-> EmptyDoc]

StartI(s, seq) ==
  /\ CanStart(s, seq)
  /\ nops' = nops + 1
  /\ Len(hist) + Cardinality(MutInFlight) < MaxMut
  /\ \E m \in Mkts, n \in Names :
       Set(s, [NewCall("I", "rmTemp") EXCEPT !.mkt = m, !.name = n,
                                             !.was = ResolvedByRegistry(m, n)])
  /\ UNCHANGED <<world, disk, registry, regState, pluginCache, mcpCache, now, hist,
                 regWrites, nclones, ref>>

\* fs.mkdir(cacheBase, { recursive }), which may throw, then
\* try { fs.rm(tempDir, { recursive, force }) } catch { }
RmTempI(s) ==
  /\ At(s, "I", "rmTemp")
  /\ \E made \in Outcomes, removed \in Outcomes :
       IF made
         THEN /\ disk' = IF removed
                           THEN [disk EXCEPT ![TempDir(calls[s].mkt, calls[s].name)] = Absent]
                           ELSE disk
              /\ Set(s, [calls[s] EXCEPT !.pc = "clone"])
              /\ UNCHANGED <<hist, ref>>
         ELSE /\ Fail(s)
              /\ disk' = disk
  /\ UNCHANGED <<world, registry, regState, pluginCache, mcpCache, now,
                 regWrites, nclones, nops>>

\* `cloned` is history: the clone the call made; `moved` is history: the
\* clone it renamed into place
\* git clone --depth 1 sourceUrl tempDir: fails on its own account (or times
\* out), or because tempDir exists and is not empty
CloneI(s) ==
  /\ At(s, "I", "clone")
  /\ \E v \in PkgVersions, fetched \in BOOLEAN :
       LET temp == TempDir(calls[s].mkt, calls[s].name)
       IN  IF fetched /\ ~IsDir(disk, temp)
             THEN /\ disk' = [disk EXCEPT ![temp] = CloneDir(v, nclones + 1, FlatA)]
                  /\ nclones' = nclones + 1
                  /\ Set(s, [calls[s] EXCEPT !.pc = "readVersion", !.cloned = nclones + 1])
                  /\ UNCHANGED <<hist, ref>>
             ELSE /\ Fail(s)
                  /\ UNCHANGED <<disk, nclones>>
  /\ UNCHANGED <<world, registry, regState, pluginCache, mcpCache, now, regWrites, nops>>

\* fs.readFile(path.join(tempDir, "package.json"))
ReadVersionI(s) ==
  /\ At(s, "I", "readVersion")
  /\ Set(s, [calls[s] EXCEPT !.pc = "rmInstall",
               !.version = ReadVersion(disk[TempDir(calls[s].mkt, calls[s].name)])])
  /\ UNCHANGED <<world, disk, registry, regState, pluginCache, mcpCache, now, hist,
                 regWrites, nclones, nops, ref>>

InstallPathOf(c) == VersionedPath(c.mkt, c.name, c.version)

\* try { fs.rm(installPath, { recursive, force }) } catch { }
RmInstallI(s) ==
  /\ At(s, "I", "rmInstall")
  /\ \E removed \in Outcomes :
       disk' = IF removed THEN [disk EXCEPT ![InstallPathOf(calls[s])] = Absent] ELSE disk
  /\ Set(s, [calls[s] EXCEPT !.pc = "rename"])
  /\ UNCHANGED <<world, registry, regState, pluginCache, mcpCache, now, hist,
                 regWrites, nclones, nops, ref>>

\* fs.rename(tempDir, installPath): fails on its own account, or when tempDir
\* is gone or installPath is a directory that is not empty
RenameI(s) ==
  /\ At(s, "I", "rename")
  /\ \E moved \in Outcomes :
       LET temp == TempDir(calls[s].mkt, calls[s].name)
           ip == InstallPathOf(calls[s])
       IN  IF moved /\ IsDir(disk, temp) /\ ~IsDir(disk, ip)
             THEN /\ disk' = [disk EXCEPT ![ip] = disk[temp], ![temp] = Absent]
                  /\ Set(s, [calls[s] EXCEPT !.pc = "readReg", !.moved = disk[temp].id])
                  /\ UNCHANGED <<hist, ref>>
             ELSE /\ Fail(s)
                  /\ disk' = disk
  /\ UNCHANGED <<world, registry, regState, pluginCache, mcpCache, now, regWrites,
                 nclones, nops>>

\* (variant: the entry not recorded)
PushNothing(doc, k, e) == doc

\* data.plugins[key].push(entry)
PushEntry(doc, k, e) ==
  [doc EXCEPT ![k] = [has |-> TRUE, seq |-> Append(@.seq, e)]]

\* const data = await readInstalledPluginsJson(); the entry is built and pushed
\* (data.plugins[key] throws when the document has no `plugins`)
ReadRegI(s) ==
  /\ At(s, "I", "readReg")
  /\ \E read \in Outcomes :
       LET got == ReadInstalledPluginsJson(regState, registry, read)
       IN  IF got.usable
             THEN /\ Set(s, [calls[s] EXCEPT
                          !.pc = "writeReg", !.read = read, !.rver = regWrites,
                          !.seq0 = got.doc[Key(calls[s].name, calls[s].mkt)].seq,
                          !.data = PushEntry(got.doc, Key(calls[s].name, calls[s].mkt),
                                             EntryAt(InstallPathOf(calls[s]),
                                                     calls[s].version, now))])
                  /\ UNCHANGED <<hist, ref>>
             ELSE Fail(s)
  /\ UNCHANGED <<world, disk, registry, regState, pluginCache, mcpCache, now,
                 regWrites, nclones, nops>>

\* await writeInstalledPluginsJson(data), which may throw
WriteRegI(s) ==
  /\ At(s, "I", "writeReg")
  /\ \E written \in Outcomes :
       IF written
         THEN /\ registry' = calls[s].data
              /\ regState' = "ok"
              /\ regWrites' = regWrites + 1
              /\ Set(s, [calls[s] EXCEPT !.pc = "finish", !.wv = regWrites + 1])
              /\ UNCHANGED <<hist, ref>>
         ELSE /\ Fail(s)
              /\ UNCHANGED <<registry, regState, regWrites>>
  /\ UNCHANGED <<world, disk, pluginCache, mcpCache, now, nclones, nops>>

InstallClear == ClearPluginCache

\* clearPluginCache(); return { success: true, installPath }
FinishI(s) ==
  /\ At(s, "I", "finish")
  /\ InstallClear
  /\ ref' = NoRefs
  /\ Set(s, [calls[s] EXCEPT !.pc = "done", !.ok = TRUE,
               !.path = InstallPathOf(calls[s])])
  /\ hist' = Append(hist, Outcome(calls[s], TRUE, InstallPathOf(calls[s])))
  /\ UNCHANGED <<world, disk, registry, regState, now, regWrites, nclones, nops>>

\* ---- uninstallPlugin(marketplace, pluginName)
StartU(s, seq) ==
  /\ CanStart(s, seq)
  /\ nops' = nops + 1
  /\ Len(hist) + Cardinality(MutInFlight) < MaxMut
  /\ \E m \in Mkts, n \in Names :
       Set(s, [NewCall("U", "readReg") EXCEPT !.mkt = m, !.name = n,
                                              !.was = Discovered(m, n)])
  /\ UNCHANGED <<world, disk, registry, regState, pluginCache, mcpCache, now, hist,
                 regWrites, nclones, ref>>

\* (variant: the first entry of the key taken)
OldestPath(doc, k) ==
  IF doc[k].has /\ Len(doc[k].seq) > 0 THEN doc[k].seq[1].installPath ELSE NoPath

\* the installPath of the latest entry of the key, when there is one to remove
LatestPath(doc, k) ==
  IF doc[k].has /\ Len(doc[k].seq) > 0
    THEN doc[k].seq[Len(doc[k].seq)].installPath
    ELSE NoPath

\* const data = await readInstalledPluginsJson(); const entries = data.plugins[key]
ReadRegU(s) ==
  /\ At(s, "U", "readReg")
  /\ \E read \in Outcomes :
       LET got == ReadInstalledPluginsJson(regState, registry, read)
           latest == LatestPath(got.doc, Key(calls[s].name, calls[s].mkt))
       IN  IF got.usable
             THEN /\ Set(s, [calls[s] EXCEPT !.data = got.doc, !.path = latest,
                               !.read = read, !.rver = regWrites,
                               !.seq0 = got.doc[Key(calls[s].name, calls[s].mkt)].seq,
                               !.pc = IF latest # NoPath THEN "rmDir" ELSE "writeReg"])
                  /\ UNCHANGED <<hist, ref>>
             ELSE Fail(s)
  /\ UNCHANGED <<world, disk, registry, regState, pluginCache, mcpCache, now,
                 regWrites, nclones, nops>>

\* try { await fs.rm(latest.installPath, { recursive, force }) } catch { }
RmDirU(s) ==
  /\ At(s, "U", "rmDir")
  /\ \E removed \in Outcomes :
       /\ disk' = IF removed THEN [disk EXCEPT ![calls[s].path] = Absent] ELSE disk
       /\ Set(s, [calls[s] EXCEPT !.pc = "writeReg", !.removed = removed])
  /\ UNCHANGED <<world, registry, regState, pluginCache, mcpCache, now, hist,
                 regWrites, nclones, nops, ref>>

\* (variant: the key left in place)
KeepKey(doc, k) == doc

\* delete data.plugins[key]
DeleteKey(doc, k) == [doc EXCEPT ![k] = NoEntries]

\* await writeInstalledPluginsJson(data), which may throw
WriteRegU(s) ==
  /\ At(s, "U", "writeReg")
  /\ \E written \in Outcomes :
       IF written
         THEN /\ registry' = DeleteKey(calls[s].data, Key(calls[s].name, calls[s].mkt))
              /\ regState' = "ok"
              /\ regWrites' = regWrites + 1
              /\ Set(s, [calls[s] EXCEPT !.pc = "finish", !.wv = regWrites + 1])
              /\ UNCHANGED <<hist, ref>>
         ELSE /\ Fail(s)
              /\ UNCHANGED <<registry, regState, regWrites>>
  /\ UNCHANGED <<world, disk, pluginCache, mcpCache, now, nclones, nops>>

\* clearPluginCache(); return { success: true }
FinishU(s) ==
  /\ At(s, "U", "finish")
  /\ ClearPluginCache
  /\ ref' = NoRefs
  /\ Set(s, [calls[s] EXCEPT !.pc = "done", !.ok = TRUE])
  /\ hist' = Append(hist, Outcome(calls[s], TRUE, calls[s].path))
  /\ UNCHANGED <<world, disk, registry, regState, now, regWrites, nclones, nops>>


\* ---- discoverPluginMcpServers
\* (variant: the nested format not recognised)
ServersObjFlatOnly(v) == v

\* parsed.mcpServers when it is a non-array object, else parsed
ServersObj(v) ==
  IF "mcpServers" \in DOMAIN v.m /\ v.m["mcpServers"].k = "obj"
    THEN v.m["mcpServers"]
    ELSE v

\* (variant: every entry kept, whatever its value)
ValidServersUnfiltered(obj) == obj.m

\* the entries whose config is a non-null, non-array object
ValidServers(obj) ==
  [n \in {x \in DOMAIN obj.m : obj.m[x].k = "obj"} |-> obj.m[n]]

\* one iteration of `for (const plugin of plugins)`: what it pushes onto
\* configs; a file that cannot be read or parsed is skipped, and so is a
\* document that is null (reading parsed.mcpServers throws into the catch)
McpEntry(plugin, d) ==
  LET doc == IF IsDir(d, plugin.path) THEN d[plugin.path].mcp ELSE NoDoc
  IN  IF doc.st # "ok" \/ doc.v.k = "null" THEN <<>>
      ELSE IF DOMAIN ValidServers(ServersObj(doc.v)) = {} THEN <<>>
      ELSE << [pluginSource |-> plugin.source,
               mcpServers |-> ValidServers(ServersObj(doc.v))] >>

\* the two cache checks: of mcpCache and, on a miss, of pluginCache by the
\* call of discoverInstalledPlugins()
StartM(s, seq) ==
  /\ CanStart(s, seq)
  /\ nops' = nops + 1
  /\ IF CacheHit(mcpCache, now)
       THEN /\ Set(s, [NewCall("M", "done") EXCEPT !.hit = TRUE,
                           !.res = mcpCache.payload, !.rver = mcpCache.ver,
                           !.scan = mcpCache.scan])
            /\ ref' = ServedHit("M")
       ELSE IF CacheHit(pluginCache, now)
         THEN /\ Set(s, [NewCall("M", "mcp") EXCEPT !.idx = 1,
                             !.plugins = pluginCache.payload,
                             !.rver = pluginCache.ver, !.scan = pluginCache.scan])
              /\ ref' = ServedHit("D")
         ELSE /\ Set(s, NewCall("M", IF rootState = "ok" THEN "load" ELSE "finish"))
              /\ ref' = ref
  /\ UNCHANGED <<world, disk, registry, regState, pluginCache, mcpCache, now, hist,
                 regWrites, nclones>>

\* fs.readFile(path.join(plugin.path, ".mcp.json")) of the next plugin, or,
\* after the last one, mcpCache = { configs, timestamp: Date.now() }
StepM(s) ==
  /\ At(s, "M", "mcp")
  /\ IF calls[s].idx <= Len(calls[s].plugins)
       THEN /\ Set(s, [calls[s] EXCEPT
                         !.acc = @ \o McpEntry(calls[s].plugins[calls[s].idx], disk),
                         !.idx = @ + 1])
            /\ UNCHANGED <<mcpCache, ref>>
       ELSE /\ mcpCache' = [set |-> TRUE, payload |-> calls[s].acc,
                            timestamp |-> now, ver |-> calls[s].rver,
                            scan |-> calls[s].scan]
            /\ Set(s, [calls[s] EXCEPT !.pc = "done", !.res = calls[s].acc])
            /\ ref' = Populated("M", calls[s].acc)
  /\ UNCHANGED <<world, disk, registry, regState, pluginCache, now, hist, regWrites,
                 nclones, nops>>


\* -------------------------------------------------------------- TaskRunner
\* the task ids the router makes up (each run has a fresh one), and the
\* workspaces
TaskIds == {"t1", "t2"}
Workspaces == {"w1", "w2"}

\* a RunningTask object; `has`: this.tasks holds it under its id
NoTask == [has |-> FALSE, workspaceId |-> "", isAlive |-> FALSE, logBuffer |-> <<>>]
\* a child process: spawned or not, the signal last sent to it, whether the
\* timer of stop() is pending; history: whether its exit and error callbacks
\* ran, the chunks that arrived for it (chunk i is the number i), the exit
\* events emitted for it, the type of the last event emitted, and whether a
\* data event was emitted after an exit event
NoProc ==
  [spawned |-> FALSE, sig |-> "", timer |-> FALSE, exited |-> FALSE, errored |-> FALSE,
   n |-> 0, exits |-> 0, last |-> "", late |-> FALSE]

\* (variant: the buffer never trimmed)
AppendLogUntrimmed(buf, line) == Append(buf, line)

\* appendLog: push, then splice(0, length - MAX_LOG_LINES) when over the limit
AppendLog(buf, line) ==
  LET pushed == Append(buf, line)
  IN  IF Len(pushed) > MAX_LOG_LINES
        THEN SubSeq(pushed, Len(pushed) - MAX_LOG_LINES + 1, Len(pushed))
        ELSE pushed

\* this.emit(`data:${taskId}`, { type, data })
EmitData(p, type) == [p EXCEPT !.last = type, !.late = @ \/ p.exits > 0]
\* this.emit(`exit:${taskId}`, { type: "exit", ... })
EmitExit(p) == [p EXCEPT !.last = "exit", !.exits = @ + 1]

\* run(params): spawn, this.tasks.set(taskId, task), the callbacks registered
Run(t, w) ==
  /\ ~procs[t].spawned
  /\ tasks' = [tasks EXCEPT ![t] = [has |-> TRUE, workspaceId |-> w, isAlive |-> TRUE,
                                     logBuffer |-> <<>>]]
  /\ procs' = [procs EXCEPT ![t].spawned = TRUE]
  /\ UNCHANGED <<pluginState, budget>>

\* the body of the two data callbacks: appendLog(str) and the data event
OnData(t, type) ==
  /\ tasks' = [tasks EXCEPT ![t].logBuffer = AppendLog(@, procs[t].n + 1)]
  /\ procs' = [procs EXCEPT ![t] = EmitData([@ EXCEPT !.n = @ + 1], type)]
  /\ budget' = budget - 1

\* child.stdout.on("data", ...): a chunk arrives on the pipe, which may still
\* be open after the child has exited
Stdout(t) ==
  /\ procs[t].spawned
  /\ budget > 0
  /\ OnData(t, "stdout")
  /\ UNCHANGED pluginState

\* child.stderr.on("data", ...)
Stderr(t) ==
  /\ procs[t].spawned
  /\ budget > 0
  /\ OnData(t, "stderr")
  /\ UNCHANGED pluginState

\* child.on("exit", ...)
OnExit(t) ==
  /\ procs[t].spawned
  /\ ~procs[t].exited
  /\ tasks' = [tasks EXCEPT ![t].isAlive = FALSE]
  /\ procs' = [procs EXCEPT ![t] = EmitExit([@ EXCEPT !.exited = TRUE])]
  /\ UNCHANGED <<pluginState, budget>>

\* child.on("error", ...): the child could not be spawned or could not be
\* signalled; after the second the child still runs and exits later
OnError(t) ==
  /\ procs[t].spawned
  /\ ~procs[t].errored
  /\ ~procs[t].exited
  /\ budget > 0
  /\ tasks' = [tasks EXCEPT ![t].isAlive = FALSE,
                            ![t].logBuffer = AppendLog(@, procs[t].n + 1)]
  /\ procs' = [procs EXCEPT
                 ![t] = EmitExit(EmitData([@ EXCEPT !.errored = TRUE, !.n = @ + 1], "stderr"))]
  /\ budget' = budget - 1
  /\ UNCHANGED pluginState

\* stop(taskId): SIGTERM and a timer, unless the task is unknown or not alive
Stop(t) ==
  /\ tasks[t].has /\ tasks[t].isAlive
  /\ ~procs[t].timer
  /\ procs' = [procs EXCEPT ![t].sig = "SIGTERM", ![t].timer = TRUE]
  /\ UNCHANGED <<pluginState, tasks, budget>>

\* the timer of stop(), 3 s later: SIGKILL if the task is still alive
Escalate(t) ==
  /\ procs[t].timer
  /\ procs' = [procs EXCEPT ![t].timer = FALSE,
                            ![t].sig = IF tasks[t].isAlive THEN "SIGKILL" ELSE @]
  /\ UNCHANGED <<pluginState, tasks, budget>>

\* cleanup(): SIGKILL to every task alive, then this.tasks.clear()
Cleanup ==
  /\ \E t \in TaskIds : tasks[t].has
  /\ procs' = [t \in TaskIds |->
                 IF tasks[t].has /\ tasks[t].isAlive
                   THEN [procs[t] EXCEPT !.sig = "SIGKILL"] ELSE procs[t]]
  /\ tasks' = [t \in TaskIds |-> [tasks[t] EXCEPT !.has = FALSE]]
  /\ UNCHANGED <<pluginState, budget>>

\* getRunningTasks(workspaceId), as the set of what it returns
GetRunningTasks(w) ==
  {[taskId |-> t, logBuffer |-> tasks[t].logBuffer] :
     t \in {x \in TaskIds : tasks[x].has /\ tasks[x].workspaceId = w /\ tasks[x].isAlive}}

\* getTaskLogs(taskId)
GetTaskLogs(t) == IF tasks[t].has THEN tasks[t].logBuffer ELSE <<>>

\* ----------------------------------------------------------- initial states
Entries == [name : Names, src : SrcKinds]
ManifestSeqs == UNION {[1..n -> Entries] : n \in 0..MaxEntries}

\* what the registry holds for a key before the first call: no key; an entry
\* whose directory exists ("ok") or not ("gone"); a key with an empty array;
\* an entry with an empty installPath; an older entry whose directory exists
\* followed by a latest entry whose directory does not ("old")
PreStates == {"absent", "ok", "gone", "empty", "nopath", "old"}

PrePath(k) == VersionedPath(k[3], k[1], "0.0.0")
OldPath(k) == VersionedPath(k[3], k[1], "1.0.0")

PreEntries(st, k) ==
  CASE st = "absent" -> NoEntries
    [] st \in {"ok", "gone"} -> [has |-> TRUE, seq |-> << Entry(PrePath(k), "0.0.0") >>]
    [] st = "empty" -> [has |-> TRUE, seq |-> <<>>]
    [] st = "nopath" -> [has |-> TRUE, seq |-> << Entry(NoPath, "0.0.0") >>]
    [] st = "old" -> [has |-> TRUE, seq |-> << Entry(OldPath(k), "1.0.0"),
                                                Entry(PrePath(k), "0.0.0") >>]

PreDisk(pre, loc) ==
  [p \in AllPaths |->
     IF \E n \in loc : \E d \in Mkts : p = LocalPath(d, n) THEN LocalDir(FlatA)
     ELSE IF \E k \in Keys : pre[k[1]] = "ok" /\ p = PrePath(k) THEN CloneDir("", 0, FlatA)
     ELSE IF \E k \in Keys : pre[k[1]] = "old" /\ p = OldPath(k) THEN CloneDir("1.0.0", 0, FlatA)
     ELSE Absent]

InitWorld(plugSeqs, locs, pres) ==
  \E plugs \in plugSeqs, loc \in locs, pre \in pres :
    /\ rootState = "ok"
    /\ manifests = << OkDir("acme", plugs) >>
    /\ registry = [k \in Keys |-> PreEntries(pre[k[1]], k)]
    /\ regState = "ok"
    /\ disk = PreDisk(pre, loc)

InitCalls(f) ==
  /\ faults = f
  /\ ref = NoRefs
  /\ pluginCache = NoCache
  /\ mcpCache = NoCache
  /\ now = 0
  /\ calls = [s \in Slots |-> IdleCall]
  /\ hist = <<>>
  /\ regWrites = 0
  /\ nclones = 0
  /\ nops = 0

\* no task was ever run; b chunks of output may be written
RunnerInit(b) ==
  /\ tasks = [t \in TaskIds |-> NoTask]
  /\ procs = [t \in TaskIds |-> NoProc]
  /\ budget = b

InitRest(f) == InitCalls(f) /\ RunnerInit(0)

\* the marketplace of the scenario of the specification: foo is a local
\* plugin, bar a remote one
AcmePlugins == << [name |-> "foo", src |-> "local"], [name |-> "bar", src |-> "url"] >>

\* the scenario world, nothing installed
Init == InitWorld({AcmePlugins}, {{"foo"}}, [Names -> {"absent"}]) /\ InitRest(FALSE)
\* the scenario world with bar not installed or installed
SeqWorld ==
  InitWorld({AcmePlugins}, {{"foo"}},
            {pre \in [Names -> {"absent", "ok"}] : pre["foo"] = "absent"})
SeqInit == Init
\* the scenario world with an installed_plugins.json that is missing, is not
\* JSON, or parses to something without `plugins`
BrokenRegWorld ==
  \E st \in {"missing", "badjson", "unusable"} :
    /\ rootState = "ok"
    /\ manifests = << OkDir("acme", AcmePlugins) >>
    /\ registry = EmptyDoc
    /\ regState = st
    /\ disk = PreDisk([n \in Names |-> "absent"], {"foo"})
FaultSeqInit == (SeqWorld \/ BrokenRegWorld) /\ InitRest(TRUE)
\* the scenario world with every registry state of bar, and file operations
\* that may fail
UninstallInit ==
  /\ InitWorld({AcmePlugins}, {{"foo"}},
               {pre \in [Names -> PreStates] : pre["foo"] = "absent"})
  /\ InitRest(TRUE)

\* the same worlds with the registry file in every state; what the file holds
\* matters only when it can be read and parsed
RegReadInit ==
  /\ \E st \in RegStates :
     \E pre \in {pre \in [Names -> PreStates] : pre["foo"] = "absent"} :
       /\ rootState = "ok"
       /\ manifests = << OkDir("acme", AcmePlugins) >>
       /\ registry = [k \in Keys |-> PreEntries(pre[k[1]], k)]
       /\ regState = st
       /\ disk = PreDisk(pre, {"foo"})
  /\ InitRest(TRUE)

\* every manifest of up to MaxEntries entries, local directories for none,
\* one or all of the names, and every registry state of foo; bar is absent or
\* has a missing directory
ScanInit ==
  /\ InitWorld(ManifestSeqs, {{}, {"foo"}, Names},
               {pre \in [Names -> PreStates] : pre["bar"] \in {"absent", "gone"}})
  /\ InitRest(FALSE)

\* the names a manifest may give itself: that of its directory, or another
ManifestNames == {"acme", "beta"}
\* one marketplace directory, acme, whose manifest has any of the names and no
\* entry, one entry or the entries of the scenario; foo has a local directory
\* or not, and is installed under acme or not
NameInit ==
  /\ \E mn \in ManifestNames,
        plugs \in {q \in ManifestSeqs : Len(q) <= 1} \cup {AcmePlugins},
        loc \in {{}, {"foo"}},
        pre \in {q \in [Names -> {"absent", "ok"}] : q["bar"] = "absent"} :
       /\ rootState = "ok"
       /\ manifests = << [OkDir("acme", plugs) EXCEPT !.mname = mn] >>
       /\ registry = [k \in Keys |-> PreEntries(pre[k[1]], k)]
       /\ regState = "ok"
       /\ disk = PreDisk(pre, loc)
  /\ InitRest(FALSE)

\* .mcp.json documents: the values a server name may map to, and the maps
ServerNames == {"serverA", "mcpServers"}
ConfigValues ==
  {Atom("null"), Atom("str"), Atom("arr"), Obj(<<>>), Obj([x \in {"env"} |-> Obj(<<>>)])}
ServerMaps == UNION {[D -> ConfigValues] : D \in SUBSET ServerNames}
\* Format B (nested): { "mcpServers": { ... } }
Nested(M) == Obj([x \in {"mcpServers"} |-> Obj(M)])

\* two local plugins: foo holds the map as a flat .mcp.json, bar holds the same
\* map under "mcpServers"
McpInit ==
  /\ \E M \in ServerMaps :
       /\ rootState = "ok"
       /\ manifests = << OkDir("acme", << [name |-> "foo", src |-> "local"],
                                          [name |-> "bar", src |-> "local"] >>) >>
       /\ registry = EmptyDoc
       /\ regState = "ok"
       /\ disk = [p \in AllPaths |->
                    IF p = LocalPath("acme", "foo") THEN LocalDir(Doc(Obj(M)))
                    ELSE IF p = LocalPath("acme", "bar") THEN LocalDir(Doc(Nested(M)))
                    ELSE Absent]
  /\ InitRest(FALSE)

\* a .mcp.json that parses to an array holding one object
ArrayOfOne == [k |-> "arr", m |-> [x \in {"0"} |-> Obj(<<>>)]]
\* the .mcp.json files of a plugin: missing, not JSON, null, a string, an
\* array, and every flat and nested document
McpDocs ==
  {NoDoc, BadDoc, Doc(Atom("null")), Doc(Atom("str")), Doc(ArrayOfOne)}
    \cup {Doc(Obj(M)) : M \in ServerMaps} \cup {Doc(Nested(M)) : M \in ServerMaps}

\* two local plugins, each with any of the .mcp.json files
McpDocInit ==
  /\ \E df \in McpDocs, db \in {NoDoc, BadDoc, FlatA} :
       /\ rootState = "ok"
       /\ manifests = << OkDir("acme", << [name |-> "foo", src |-> "local"],
                                          [name |-> "bar", src |-> "local"] >>) >>
       /\ registry = EmptyDoc
       /\ regState = "ok"
       /\ disk = [p \in AllPaths |->
                    IF p = LocalPath("acme", "foo") THEN LocalDir(df)
                    ELSE IF p = LocalPath("acme", "bar") THEN LocalDir(db)
                    ELSE Absent]
  /\ InitRest(FALSE)

\* the marketplaces directory in every shape: the directory itself missing or
\* unreadable; up to MaxDirs entries with distinct names, each a file, or a
\* directory whose manifest is in one of ManifestStates; the manifests that
\* parse hold up to two entries, local foo, remote bar or null. A dot-prefixed
\* entry is a directory with a well-formed manifest that lists foo.
TreeEntries == {[name |-> "foo", src |-> "local"], [name |-> "bar", src |-> "url"], NullEntry}
TreePlugins == UNION {[1..n -> TreeEntries] : n \in 0..2}
Dirents(dir) ==
  IF StartsWithDot(dir) THEN {OkDir(dir, << [name |-> "foo", src |-> "local"] >>)}
  ELSE {OkDir(dir, plugs) : plugs \in TreePlugins}
       \cup {[dir |-> dir, isDir |-> TRUE, st |-> st, mname |-> dir, plugins |-> <<>>] :
                st \in ManifestStates \ {"ok"}}
       \cup {[dir |-> dir, isDir |-> FALSE, st |-> "missing", mname |-> dir, plugins |-> <<>>]}
Trees ==
  UNION {{t \in [1..n -> UNION {Dirents(d) : d \in MktDirs}] :
            \A i, j \in 1..n : i < j => t[i].dir # t[j].dir} : n \in 0..MaxDirs}

TreeInit ==
  /\ \E root \in {"ok", "missing", "unreadable"}, t \in Trees, st \in {"ok", "badjson"} :
       /\ rootState = root
       /\ root # "ok" => t = <<>>
       /\ manifests = t
       /\ registry = EmptyDoc
       /\ regState = st
       /\ disk = [p \in LocalPaths |->
                    IF \E d \in MktDirs : p = LocalPath(d, "foo")
                      THEN LocalDir(Doc(Obj([x \in {"serverA"} |-> Obj(<<>>)])))
                      ELSE Absent]
  /\ InitRest(FALSE)

\* the task runner with nothing run, over the scenario world of the plugins
LogInit == InitWorld({AcmePlugins}, {{"foo"}}, [Names -> {"absent"}])
             /\ InitCalls(FALSE) /\ RunnerInit(MaxLogChunks)
TaskInit == InitWorld({AcmePlugins}, {{"foo"}}, [Names -> {"absent"}])
              /\ InitCalls(FALSE) /\ RunnerInit(MaxTaskChunks)

\* ------------------------------------------------------------ specifications
Steps(s) ==
  \/ LoadD(s) \/ EntryD(s) \/ FinishD(s) \/ LoadA(s) \/ StepM(s)
  \/ RmTempI(s) \/ CloneI(s) \/ ReadVersionI(s) \/ RmInstallI(s) \/ RenameI(s)
  \/ ReadRegI(s) \/ WriteRegI(s) \/ FinishI(s)
  \/ ReadRegU(s) \/ RmDirU(s) \/ WriteRegU(s) \/ FinishU(s)
  \/ Return(s)

Starts(s, seq) ==
  \/ StartD(s, seq) \/ StartA(s, seq) \/ StartM(s, seq)
  \/ StartI(s, seq) \/ StartU(s, seq)

\* calls interleave at their await points
\* (within one TTL window: the clock does not move)
Next == ClearCall \/ \E s \in Slots : Starts(s, FALSE) \/ Steps(s)
Spec == Init /\ [][Next]_vars

\* calls do not overlap
SeqNext == Tick \/ (AllIdle /\ ClearCall) \/ \E s \in Slots : Starts(s, TRUE) \/ Steps(s)
SeqSpec == SeqInit /\ [][SeqNext]_vars

\* installs, uninstalls and scans, one call at a time within one TTL window,
\* with file operations that may fail and a registry file that may be broken
FaultSeqNext ==
  \E s \in Slots :
    \/ StartI(s, TRUE) \/ StartU(s, TRUE) \/ StartD(s, TRUE) \/ StartM(s, TRUE)
    \/ LoadD(s) \/ EntryD(s) \/ FinishD(s) \/ StepM(s)
    \/ RmTempI(s) \/ CloneI(s) \/ ReadVersionI(s) \/ RmInstallI(s) \/ RenameI(s)
    \/ ReadRegI(s) \/ WriteRegI(s) \/ FinishI(s)
    \/ ReadRegU(s) \/ RmDirU(s) \/ WriteRegU(s) \/ FinishU(s)
    \/ Return(s)
FaultSeqSpec == FaultSeqInit /\ [][FaultSeqNext]_vars

\* scans of a registry and a disk that no call changes
ScanNext ==
  \E s \in Slots :
    \/ StartD(s, TRUE) \/ LoadD(s) \/ EntryD(s) \/ FinishD(s)
    \/ StartA(s, TRUE) \/ LoadA(s) \/ Return(s)
ScanSpec == ScanInit /\ [][ScanNext]_vars

\* calls of discoverPluginMcpServers and discoverInstalledPlugins, one at a
\* time, over plugins with .mcp.json documents
McpNext ==
  \/ Tick
  \/ \E s \in Slots :
       \/ StartM(s, TRUE) \/ StartD(s, TRUE) \/ LoadD(s) \/ EntryD(s) \/ FinishD(s)
       \/ StepM(s) \/ Return(s)
McpSpec == McpInit /\ [][McpNext]_vars
McpDocSpec == McpDocInit /\ [][McpNext]_vars

\* installs and scans, one call at a time, over manifests whose name may
\* differ from the name of their directory
NameNext ==
  \E s \in Slots :
    \/ StartI(s, TRUE) \/ RmTempI(s) \/ CloneI(s) \/ ReadVersionI(s) \/ RmInstallI(s)
    \/ RenameI(s) \/ ReadRegI(s) \/ WriteRegI(s) \/ FinishI(s)
    \/ StartD(s, TRUE) \/ LoadD(s) \/ EntryD(s) \/ FinishD(s) \/ Return(s)
NameSpec == NameInit /\ [][NameNext]_vars


\* the three discovery functions, one call at a time, over every shape of the
\* marketplaces directory
TreeNext ==
  \/ StartD(1, TRUE) \/ StartA(1, TRUE) \/ StartM(1, TRUE)
  \/ LoadD(1) \/ EntryD(1) \/ FinishD(1) \/ LoadA(1) \/ StepM(1) \/ Return(1)
TreeSpec == TreeInit /\ [][TreeNext]_vars

\* installs and uninstalls that interleave at their await points, each call
\* kept in its slot once it has returned
RaceNext ==
  \E s \in Slots :
    \/ StartI(s, FALSE) \/ StartU(s, FALSE)
    \/ RmTempI(s) \/ CloneI(s) \/ ReadVersionI(s) \/ RmInstallI(s) \/ RenameI(s)
    \/ ReadRegI(s) \/ WriteRegI(s) \/ FinishI(s)
    \/ ReadRegU(s) \/ RmDirU(s) \/ WriteRegU(s) \/ FinishU(s)
RaceSpec == Init /\ [][RaceNext]_vars

\* uninstalls and scans, one call at a time
UninstallNext ==
  \E s \in Slots :
    \/ StartU(s, TRUE) \/ ReadRegU(s) \/ RmDirU(s) \/ WriteRegU(s) \/ FinishU(s)
    \/ StartD(s, TRUE) \/ LoadD(s) \/ EntryD(s) \/ FinishD(s)
    \/ Return(s)
UninstallSpec == UninstallInit /\ [][UninstallNext]_vars
RegReadSpec == RegReadInit /\ [][UninstallNext]_vars

\* one talkative task and one silent one
LogNext ==
  \/ \E t \in TaskIds, w \in Workspaces : Run(t, w)
  \/ \E t \in TaskIds : OnExit(t)
  \/ Stdout("t1") \/ Stderr("t1") \/ OnError("t1")
LogSpec == LogInit /\ [][LogNext]_vars

\* every operation and callback of the task runner
TaskNext ==
  \/ \E t \in TaskIds, w \in Workspaces : Run(t, w)
  \/ \E t \in TaskIds :
       \/ Stdout(t) \/ Stderr(t) \/ OnExit(t) \/ OnError(t) \/ Stop(t) \/ Escalate(t)
  \/ Cleanup
TaskSpec == TaskInit /\ [][TaskNext]_vars

\* ------------------------------------------------------------------ claims
Done(s, kind) == calls[s].kind = kind /\ calls[s].pc = "done"
SourcesOf(res) == [j \in 1..Len(res) |-> res[j].source]
HasSource(res, m, n) == \E j \in 1..Len(res) : res[j].source = <<m, ":", n>>
ItemKey(it) == <<it.entry.name, "@", it.mname>>
ItemSource(it) == <<it.mname, ":", it.entry.name>>
ItemLocal(it) == <<"marketplaces", it.dir, it.entry.name>>
\* the installPath of the last entry of key k in the registry file, if any
LastInstallPath(k) ==
  IF registry[k].has /\ Len(registry[k].seq) > 0
    THEN registry[k].seq[Len(registry[k].seq)].installPath
    ELSE <<>>
ExistsOnDisk(p) == p \in DOMAIN disk /\ disk[p].ex
RegistryDirOf(it) == ExistsOnDisk(LastInstallPath(ItemKey(it)))
LocalDirOf(it) == it.entry.src = "local" /\ ExistsOnDisk(ItemLocal(it))
\* the directory the specification's PathResolver gives the entry
ResolvedDir(it) ==
  IF RegistryDirOf(it) THEN LastInstallPath(ItemKey(it))
  ELSE IF LocalDirOf(it) THEN ItemLocal(it) ELSE <<>>
Emitted(it) == it.entry.src # "none" /\ ResolvedDir(it) # <<>>
EmittedItems == SelectSeq(WorkList, Emitted)
Declared(m, n) ==
  \E i \in 1..Len(WorkList) :
    WorkList[i].mname = m /\ WorkList[i].entry.name = n /\ WorkList[i].entry.src # "none"

\* C1: when calls do not overlap, a discoverInstalledPlugins() call that starts
\* after installPlugin(m, n, url) returned success for a plugin the manifest of
\* m declares, with no other install, uninstall or clear in between, returns a
\* record with source "<m>:<n>" and path = the install path, whether or not
\* the plugin cache slot was populated less than 30 s before.
C1_InstallThenDiscover ==
  \A s \in Slots :
    LET c == calls[s] IN
    (/\ Done(s, "D")
     /\ c.h0 >= 1
     /\ hist[c.h0].kind = "I"
     /\ hist[c.h0].ok
     /\ Declared(hist[c.h0].mkt, hist[c.h0].name))
    => \E j \in 1..Len(c.res) :
         /\ c.res[j].source = <<hist[c.h0].mkt, ":", hist[c.h0].name>>
         /\ c.res[j].path = hist[c.h0].path
         /\ c.res[j].path # <<>>

C1_Witness ==
  \E s \in Slots :
    LET c == calls[s] IN
    /\ Done(s, "D")
    /\ c.h0 >= 1
    /\ hist[c.h0].kind = "I"
    /\ hist[c.h0].ok
    /\ hist[c.h0].fresh
    /\ hist[c.h0].name = "bar"
    /\ c.t0 < CACHE_TTL_MS
    /\ HasSource(c.res, "acme", "bar")

\* a result that includes the mutation with outcome o: computed from a registry
\* read made after the mutation's write or, for the plugin list, at least
\* showing its effect on the plugin (installed at the install path, or no
\* longer at the removed path)
Reflects(c, o) ==
  \/ c.rver >= o.wv
  \/ /\ c.kind = "D"
     /\ IF o.kind = "I"
          THEN \E j \in 1..Len(c.res) :
                 c.res[j].source = <<o.mkt, ":", o.name>> /\ c.res[j].path = o.path
          ELSE \A j \in 1..Len(c.res) : c.res[j].path # o.path

\* C2: in every interleaving, every call of discoverInstalledPlugins or
\* discoverPluginMcpServers that starts after an install or uninstall returned
\* success returns a result that includes that mutation; a scan in flight
\* during the mutation leaves no pre-mutation payload to be served as a hit.
C2_NoStaleDiscovery ==
  \A s \in Slots :
    LET c == calls[s] IN
    (c.kind \in {"D", "M"} /\ c.pc = "done")
    => \A i \in 1..c.h0 :
         (hist[i].ok /\ hist[i].kind \in {"I", "U"}) => Reflects(c, hist[i])

\* C3 as stated: a call that starts less than 30 s after a call of its kind
\* returned, with no successful install or uninstall and no clear in between,
\* is served from the cache slot and returns the same payload.
C3_WindowFromLastReturn ==
  \A s \in Slots :
    LET c == calls[s] IN
    (c.kind \in {"D", "M"} /\ c.exp.sinceReturned)
    => (c.hit /\ c.res = c.exp.payload)

\* C3 as amended: a call that starts less than 30 s after its cache slot was
\* populated, with no successful install or uninstall and no clear in between,
\* is served from the slot (no registry or file read) and returns the payload
\* stored then; this holds of discoverInstalledPlugins and of
\* discoverPluginMcpServers with its own slot.
C3_WindowFromPopulation ==
  \A s \in Slots :
    LET c == calls[s] IN
    (c.kind \in {"D", "M"} /\ c.exp.sincePopulated)
    => (c.hit /\ c.pc = "done" /\ c.res = c.exp.payload)

C3_Witness ==
  \E s \in Slots :
    LET c == calls[s] IN
    /\ c.kind = "D"
    /\ c.exp.sincePopulated
    /\ c.t0 = CACHE_TTL_MS - 1
    /\ c.hit
    /\ Len(c.res) > 0
    /\ mcpCache.set /\ mcpCache.timestamp = 0


\* C4: for every manifest entry with a source whose key has a registry entry
\* whose latest installPath is an existing directory, the record of the entry
\* has path = that registry path, also when the local source resolves to a
\* different existing directory; a record has the local path only when the
\* registry gives no existing directory.
C4_PathPrecedence ==
  \A s \in Slots :
    Done(s, "D") =>
      LET res == calls[s].res IN
      /\ \A i \in 1..Len(WorkList) :
           LET it == WorkList[i] IN
           (it.entry.src # "none" /\ RegistryDirOf(it))
           => /\ \E j \in 1..Len(res) : res[j].source = ItemSource(it)
              /\ \A j \in 1..Len(res) :
                   res[j].source = ItemSource(it)
                   => res[j].path = LastInstallPath(ItemKey(it))
      /\ \A j \in 1..Len(res) :
           res[j].path \in LocalPaths
           => ~ExistsOnDisk(LastInstallPath(<<res[j].name, "@", res[j].marketplace>>))

C4_Witness ==
  \E s \in Slots, i \in 1..Len(WorkList) :
    LET it == WorkList[i] IN
    /\ Done(s, "D")
    /\ it.entry.src = "local"
    /\ RegistryDirOf(it)
    /\ ExistsOnDisk(ItemLocal(it))
    /\ ItemLocal(it) # LastInstallPath(ItemKey(it))
    /\ \E j \in 1..Len(calls[s].res) :
         /\ calls[s].res[j].source = ItemSource(it)
         /\ calls[s].res[j].path = LastInstallPath(ItemKey(it))

\* C5: every record of a scan has a non-null path that is an existing
\* directory, and the entries of a name for which neither the registry path
\* nor the local path is an existing directory produce no record: a name has
\* at most as many records as entries with an existing directory.
C5_PathsAreDirectories ==
  \A s \in Slots :
    Done(s, "D") =>
      LET res == calls[s].res IN
      /\ \A j \in 1..Len(res) : res[j].path # <<>> /\ ExistsOnDisk(res[j].path)
      /\ \A m \in Mkts, n \in Names :
           Cardinality({j \in 1..Len(res) : res[j].source = <<m, ":", n>>})
             <= Cardinality({i \in 1..Len(WorkList) :
                               /\ ItemSource(WorkList[i]) = <<m, ":", n>>
                               /\ ResolvedDir(WorkList[i]) # <<>>})

C5_Witness ==
  \E s \in Slots, i \in 1..Len(WorkList) :
    LET it == WorkList[i] IN
    /\ Done(s, "D")
    /\ ~calls[s].hit
    /\ it.entry.src = "local"
    /\ LastInstallPath(ItemKey(it)) # <<>>
    /\ ResolvedDir(it) = <<>>
    /\ ~HasSource(calls[s].res, it.mname, it.entry.name)
    /\ Len(calls[s].res) >= 1

\* C6: for the single marketplace, when every one of the N manifest entries has
\* a source that resolves to an existing directory, a scan returns exactly N
\* records, the i-th with source "<manifest name>:<name of the i-th entry>".
C6_OneRecordPerEntry ==
  \A s \in Slots :
    (/\ Done(s, "D")
     /\ Len(manifests) = 1
     /\ \A i \in 1..Len(WorkList) : Emitted(WorkList[i]))
    => /\ Len(calls[s].res) = Len(manifests[1].plugins)
       /\ \A i \in 1..Len(calls[s].res) :
            /\ calls[s].res[i].source =
                 <<manifests[1].mname, ":", manifests[1].plugins[i].name>>
            /\ calls[s].res[i].name = manifests[1].plugins[i].name

C6_Witness ==
  \E s \in Slots :
    /\ Done(s, "D")
    /\ ~calls[s].hit
    /\ Len(manifests) = 1
    /\ Len(manifests[1].plugins) >= 2
    /\ manifests[1].plugins[1].name # manifests[1].plugins[2].name
    /\ \A i \in 1..Len(WorkList) : Emitted(WorkList[i])
    /\ Len(calls[s].res) = Len(manifests[1].plugins)

\* C7: when the manifest has an entry with an empty or absent source, that
\* entry yields no record and the scan returns, in manifest order, exactly the
\* records (name, source, path) of the other entries that resolve.
C7_EmptySourceSkipped ==
  \A s \in Slots :
    (Done(s, "D") /\ \E i \in 1..Len(WorkList) : WorkList[i].entry.src = "none")
    => /\ Len(calls[s].res) = Len(EmittedItems)
       /\ \A j \in 1..Len(calls[s].res) :
            /\ calls[s].res[j].name = EmittedItems[j].entry.name
            /\ calls[s].res[j].source = ItemSource(EmittedItems[j])
            /\ calls[s].res[j].path = ResolvedDir(EmittedItems[j])

C7_Witness ==
  \E s \in Slots :
    /\ Done(s, "D")
    /\ ~calls[s].hit
    /\ Len(WorkList) = 3
    /\ Emitted(WorkList[1])
    /\ WorkList[2].entry.src = "none"
    /\ RegistryDirOf(WorkList[2])
    /\ Emitted(WorkList[3])
    /\ WorkList[1].entry.name # WorkList[3].entry.name
    /\ Len(calls[s].res) = 2

AcmeWorld ==
  /\ rootState = "ok"
  /\ Len(manifests) = 1
  /\ manifests[1].dir = "acme" /\ manifests[1].mname = "acme"
  /\ manifests[1].isDir /\ manifests[1].st = "ok"
  /\ manifests[1].plugins = << [name |-> "foo", src |-> "local"],
                               [name |-> "bar", src |-> "url"] >>
  /\ ExistsOnDisk(<<"marketplaces", "acme", "foo">>)
AcmeBefore(c) ==
  /\ AcmeWorld
  /\ c.pc = "done"
  /\ c.h0 = 0
  /\ hist = <<>>
  /\ \A k \in Keys : ~registry[k].has
AcmeAfter(c) ==
  /\ AcmeWorld
  /\ c.pc = "done"
  /\ c.h0 = 1
  /\ Len(hist) = 1
  /\ hist[1].kind = "I" /\ hist[1].ok /\ hist[1].mkt = "acme" /\ hist[1].name = "bar"
  /\ ~registry[<<"foo", "@", "acme">>].has

\* C9: in the acme scenario, before any mutation discoverInstalledPlugins()
\* returns exactly foo and discoverAvailablePlugins() exactly bar; after
\* installPlugin("acme", "bar", url) succeeded, discoverInstalledPlugins()
\* returns exactly foo and bar and discoverAvailablePlugins() nothing.
C9_AcmeScenario ==
  \A s \in Slots :
    LET c == calls[s] IN
    /\ (c.kind = "D" /\ AcmeBefore(c))
       => SourcesOf(c.res) = << <<"acme", ":", "foo">> >>
    /\ (c.kind = "A" /\ AcmeBefore(c))
       => [j \in 1..Len(c.res) |-> c.res[j].name] = <<"bar">>
    /\ (c.kind = "D" /\ AcmeAfter(c))
       => SourcesOf(c.res) = << <<"acme", ":", "foo">>, <<"acme", ":", "bar">> >>
    /\ (c.kind = "A" /\ AcmeAfter(c))
       => c.res = <<>>

C9_Witness ==
  \E s \in Slots :
    /\ calls[s].kind = "A"
    /\ AcmeAfter(calls[s])
    /\ calls[s].res = <<>>
    /\ pluginCache.set
    /\ Len(pluginCache.payload) = 2

\* the manifest entries with a remote-url source that satisfy Test, by name
UrlNames(Test(_)) ==
  LET sel == SelectSeq(WorkList, LAMBDA it : it.entry.src = "url" /\ Test(it))
  IN  [j \in 1..Len(sel) |-> <<sel[j].mname, sel[j].entry.name>>]
ResultNames(res) == [j \in 1..Len(res) |-> <<res[j].marketplace, res[j].name>>]
KeyAbsent(it) == ~registry[ItemKey(it)].has
NoInstallPath(it) == LastInstallPath(ItemKey(it)) = <<>>

\* C10 as stated: discoverAvailablePlugins() returns exactly the entries with a
\* remote-url source whose key is absent from the registry document.
C10_AvailableIffKeyAbsent ==
  \A s \in Slots :
    Done(s, "A") => ResultNames(calls[s].res) = UrlNames(KeyAbsent)

\* C10 as amended: discoverAvailablePlugins() returns, in manifest order,
\* exactly the entries with a remote-url source whose key has no last registry
\* entry with a non-empty installPath (key absent, sequence empty, or
\* installPath empty); whether any directory exists does not matter.
C10_AvailableIffNoInstallPath ==
  \A s \in Slots :
    Done(s, "A") => ResultNames(calls[s].res) = UrlNames(NoInstallPath)

C10_Witness ==
  \E s \in Slots, i \in 1..Len(WorkList), j \in 1..Len(WorkList) :
    /\ Done(s, "A")
    /\ WorkList[i].entry.src = "url"
    /\ ~KeyAbsent(WorkList[i])
    /\ NoInstallPath(WorkList[i])
    /\ \E r \in 1..Len(calls[s].res) : calls[s].res[r].name = WorkList[i].entry.name
    /\ WorkList[j].entry.src = "url"
    /\ ~NoInstallPath(WorkList[j])
    /\ ~RegistryDirOf(WorkList[j])
    /\ \A r \in 1..Len(calls[s].res) : calls[s].res[r].name # WorkList[j].entry.name


\* the validated server map a result holds for a plugin, if it has a record
ServerMapOf(res, src) ==
  IF \E j \in 1..Len(res) : res[j].pluginSource = src
    THEN [has |-> TRUE,
          map |-> (CHOOSE r \in {res[j] : j \in 1..Len(res)} : r.pluginSource = src).mcpServers]
    ELSE [has |-> FALSE, map |-> <<>>]
\* the map M of the two documents: the flat document of foo
FlatMap == disk[<<"marketplaces", "acme", "foo">>].mcp.v.m
SameServerMaps(res) ==
  ServerMapOf(res, <<"acme", ":", "foo">>) = ServerMapOf(res, <<"acme", ":", "bar">>)

\* C11 as stated: for every map M, the plugin whose .mcp.json is the flat
\* document M and the plugin whose .mcp.json is {"mcpServers": M} get the same
\* validated server map from discoverPluginMcpServers, or both get no record.
C11_FlatEqualsNested ==
  \A s \in Slots : Done(s, "M") => SameServerMaps(calls[s].res)

\* C11 as amended: the same, for every map M that has no entry named
\* "mcpServers" whose value is a non-array object.
C11_FlatEqualsNestedAmended ==
  \A s \in Slots :
    (/\ Done(s, "M")
     /\ ~("mcpServers" \in DOMAIN FlatMap /\ FlatMap["mcpServers"].k = "obj"))
    => SameServerMaps(calls[s].res)

C11_Witness ==
  \E s \in Slots :
    /\ Done(s, "M")
    /\ ~calls[s].hit
    /\ DOMAIN FlatMap = {"serverA", "mcpServers"}
    /\ FlatMap["serverA"].k = "obj"
    /\ FlatMap["mcpServers"].k = "arr"
    /\ Len(calls[s].res) = 2
    /\ DOMAIN calls[s].res[1].mcpServers = {"serverA"}
    /\ calls[s].res[1].mcpServers = calls[s].res[2].mcpServers


\* the steps of installPlugin before the registry write
BeforeWrite == {"rmTemp", "clone", "rename", "readReg"}

\* C12: an installPlugin call that failed at a step before the registry write
\* (mkdir, clone, rename, reading data.plugins of an unusable document) has
\* returned success = false, and installed_plugins.json is what it was when
\* the call started.
C12_FailedInstallLeavesRegistry ==
  \A s \in Slots :
    (Done(s, "I") /\ calls[s].at \in BeforeWrite)
    => /\ ~calls[s].ok
       /\ <<regState, registry>> = calls[s].reg0

C12_Witness ==
  \E s \in Slots :
    /\ Done(s, "I")
    /\ calls[s].at = "rename"
    /\ calls[s].name = "bar"
    /\ registry[<<"bar", "@", "acme">>].has
    /\ \E t \in 1..Len(hist) : hist[t].kind = "I" /\ ~hist[t].ok /\ hist[t].name = "bar"

\* C13: a call of installPlugin or uninstallPlugin never rejects: when a step
\* threw, it has returned success = false, and it has returned success = true
\* only after its write of installed_plugins.json completed.
C13_NeverRejects ==
  \A s \in Slots :
    calls[s].kind \in {"I", "U"}
    => /\ calls[s].pc # "rejected"
       /\ calls[s].at # "" => (calls[s].pc = "done" /\ ~calls[s].ok)
       /\ (calls[s].pc = "done" /\ calls[s].ok)
          => (calls[s].at = "" /\ calls[s].wv >= 1 /\ calls[s].wv <= regWrites)

C13_Witness ==
  \E s \in Slots :
    /\ Done(s, "U")
    /\ ~calls[s].ok
    /\ calls[s].at = "writeReg"
    /\ \E t \in 1..Len(hist) : hist[t].kind = "I" /\ ~hist[t].ok

\* C14: discoverInstalledPlugins, discoverAvailablePlugins and
\* discoverPluginMcpServers never reject: whether the marketplaces directory is
\* missing or unreadable, a manifest is missing, unreadable, not JSON, null or
\* without a plugins array, the registry file is not JSON, or manifest entries
\* are null, each call resolves to a list, which is empty when the marketplaces
\* directory cannot be listed.
C14_DiscoveryNeverRejects ==
  \A s \in Slots :
    calls[s].kind \in {"D", "A", "M"}
    => /\ calls[s].pc # "rejected"
       /\ (calls[s].pc = "done" /\ rootState # "ok") => calls[s].res = <<>>

C14_Witness ==
  \E s \in Slots :
    /\ Done(s, "M")
    /\ regState = "badjson"
    /\ \E i \in 1..Len(manifests) :
         /\ Visited(manifests[i])
         /\ \E j \in 1..Len(manifests[i].plugins) : manifests[i].plugins[j] = NullEntry
    /\ \E i \in 1..Len(manifests) : manifests[i].isDir /\ manifests[i].st = "null"

\* C15: registry history is append-only per key. When calls do not overlap,
\* an install or uninstall call that has returned left the sequence of every
\* key as it was when the call started, or extended it by exactly one entry at
\* the end (install of that key), or removed the key entirely (uninstall of
\* that key).
C15_AppendOnlyHistory ==
  \A s \in Slots :
    LET c == calls[s]
        before == c.reg0[2]
    IN  (c.kind \in {"I", "U"} /\ c.pc = "done" /\ c.reg0[1] = "ok" /\ regState = "ok")
        => \A k \in Keys :
             \/ registry[k] = before[k]
             \/ /\ c.kind = "I"
                /\ k = Key(c.name, c.mkt)
                /\ registry[k].has
                /\ Len(registry[k].seq) = Len(before[k].seq) + 1
                /\ SubSeq(registry[k].seq, 1, Len(before[k].seq)) = before[k].seq
             \/ /\ c.kind = "U"
                /\ k = Key(c.name, c.mkt)
                /\ ~registry[k].has

\* C16: a call of discoverInstalledPlugins or discoverPluginMcpServers is
\* served from its slot exactly when the slot was populated and less than
\* 30000 ms have passed since; at 30000 ms or later the call is a miss, and
\* when it has returned the slot holds the new payload with the time of its
\* storing. Each slot is judged by its own timestamp.
SlotOf(kind) == IF kind = "D" THEN pluginCache ELSE mcpCache

C16_HitBoundary ==
  \A s \in Slots :
    LET c == calls[s] IN
    c.kind \in {"D", "M"}
    => /\ c.hit <=> (c.exp.set /\ c.exp.age < CACHE_TTL_MS)
       /\ (c.pc = "done" /\ ~c.hit)
          => /\ SlotOf(c.kind).set
             /\ SlotOf(c.kind).timestamp >= c.t0
             /\ SlotOf(c.kind).timestamp <= now
             /\ SlotOf(c.kind).payload = c.res
       /\ (c.pc = "done" /\ c.hit)
          => /\ SlotOf(c.kind).timestamp = c.t0 - c.exp.age
             /\ c.res = c.exp.payload

\* a discoverInstalledPlugins call exactly 30000 ms after its slot was
\* populated has missed and stored the list again, while the mcp slot,
\* populated 29999 ms after the plugin slot, still holds its own timestamp
C16_Witness ==
  \E s \in Slots :
    /\ Done(s, "D")
    /\ calls[s].exp.set
    /\ calls[s].exp.age = CACHE_TTL_MS
    /\ ~calls[s].hit
    /\ pluginCache.timestamp = CACHE_TTL_MS
    /\ mcpCache.set
    /\ mcpCache.timestamp = CACHE_TTL_MS - 1
    /\ CacheHit(mcpCache, now)

\* C17: within one marketplace manifest a failure while processing one entry
\* (an entry that is null, so that reading its fields throws) is contained to
\* that entry: a discoverInstalledPlugins() call that has returned holds a
\* record for every entry of every scanned manifest that resolves to a
\* directory, whatever entries come before it in the manifest.
C17_EntryFailureContained ==
  \A s \in Slots :
    Done(s, "D")
    => \A i \in 1..Len(WorkList) :
         ScanEntry(WorkList[i], InstalledPaths(regState, registry), disk) # <<>>
         => HasSource(calls[s].res, WorkList[i].mname, WorkList[i].entry.name)

\* C18: an entry of the marketplaces directory that is dot-prefixed, is not a
\* directory, or whose manifest is missing, is not valid JSON, has a non-array
\* plugins field or cannot be read contributes no record, and every other
\* entry contributes the records a scan of it alone yields: the list
\* discoverInstalledPlugins() returns is the concatenation, in directory
\* order, of these contributions.
RECURSIVE ScanFrom(_, _)
ScanFrom(wl, i) ==
  IF i = 0 \/ i > Len(wl) THEN <<>>
  ELSE ScanEntry(wl[i], InstalledPaths(regState, registry), disk)
       \o ScanFrom(wl, AfterEntry(wl, i))

Skipped(dirent) ==
  \/ StartsWithDot(dirent.dir)
  \/ ~dirent.isDir
  \/ dirent.st \in {"missing", "badjson", "noarray", "unreadable"}

Contribution(dirent) ==
  IF Skipped(dirent) THEN <<>> ELSE ScanFrom(WorkFrom(<<dirent>>, 1), 1)

RECURSIVE Contributions(_)
Contributions(i) ==
  IF i > Len(manifests) THEN <<>> ELSE Contribution(manifests[i]) \o Contributions(i + 1)

C18_BadMarketplaceSkipped ==
  \A s \in Slots :
    Done(s, "D")
    => /\ calls[s].res = Contributions(1)
       /\ \A j \in 1..Len(calls[s].res) :
            \E i \in 1..Len(manifests) :
              /\ ~Skipped(manifests[i])
              /\ calls[s].res[j].source[1] = manifests[i].mname

\* a scan of a root whose first entry has a manifest that is not JSON and
\* whose second entry is a well-formed marketplace has returned the records
\* of the second
C18_Witness ==
  \E s \in Slots :
    /\ Done(s, "D")
    /\ ~calls[s].hit
    /\ Len(manifests) = 2
    /\ manifests[1].isDir /\ manifests[1].st = "badjson"
    /\ ~Skipped(manifests[2])
    /\ calls[s].res # <<>>
    /\ calls[s].res = Contribution(manifests[2])

\* C19: when installPlugin(marketplace, name, url) has returned success with
\* installPath P, P is the cache directory of marketplace/name joined with the
\* version, which is the string version the clone declares or "0.0.0"; P is a
\* directory and holds the clone; the staging directory does not exist; and
\* the registry sequence of name@marketplace is its value before the call
\* (empty if absent) with exactly one entry appended, whose scope is "user",
\* whose installPath is P, whose version is that version and whose
\* installedAt equals its lastUpdated.
PreviousSeq(c) ==
  IF c.reg0[1] = "ok" THEN c.reg0[2][Key(c.name, c.mkt)].seq ELSE <<>>

C19_InstallPostcondition ==
  \A s \in Slots :
    LET c == calls[s]
        P == c.path
        now_seq == registry[Key(c.name, c.mkt)].seq
    IN  (Done(s, "I") /\ c.ok)
        => /\ P = VersionedPath(c.mkt, c.name, c.version)
           /\ IsDir(disk, P)
           /\ c.version = ReadVersion(disk[P])
           /\ ~IsDir(disk, TempDir(c.mkt, c.name))
           /\ registry[Key(c.name, c.mkt)].has
           /\ Len(now_seq) = Len(PreviousSeq(c)) + 1
           /\ SubSeq(now_seq, 1, Len(PreviousSeq(c))) = PreviousSeq(c)
           /\ now_seq[Len(now_seq)].scope = "user"
           /\ now_seq[Len(now_seq)].installPath = P
           /\ now_seq[Len(now_seq)].version = c.version
           /\ now_seq[Len(now_seq)].installedAt = now_seq[Len(now_seq)].lastUpdated

\* C20: the steps of one installPlugin call are ordered. The step that writes
\* the registry document is taken only when the staging clone has been renamed
\* into the final versioned directory; the cache slots are cleared only by the
\* step that follows the completed registry write, and that step is the one
\* that returns success; every other step of the call, the failing ones
\* included, leaves both cache slots as they are.
C20_StepOrder ==
  [][\A s \in Slots :
       LET c == calls[s]
           stepped == c.kind = "I" /\ calls'[s] # c
       IN  /\ (stepped /\ c.pc = "writeReg" /\ calls'[s].pc = "finish")
              => /\ IsDir(disk, InstallPathOf(c))
                 /\ ~IsDir(disk, TempDir(c.mkt, c.name))
                 /\ registry' = c.data
           /\ (stepped /\ c.pc = "finish")
              => /\ c.wv >= 1 /\ c.wv = regWrites /\ registry = c.data
                 /\ pluginCache' = NoCache /\ mcpCache' = NoCache
                 /\ calls'[s].pc = "done" /\ calls'[s].ok
           /\ (stepped /\ c.pc # "finish")
              => /\ pluginCache' = pluginCache /\ mcpCache' = mcpCache
                 /\ ~(calls'[s].pc = "done" /\ calls'[s].ok)
  ]_vars

\* an install has failed at its registry write, after an earlier install
\* succeeded and a scan populated the plugin slot, which still holds its list
C20_Witness ==
  \E s \in Slots :
    /\ Done(s, "I")
    /\ ~calls[s].ok
    /\ calls[s].at = "writeReg"
    /\ pluginCache.set
    /\ \E t \in 1..Len(hist) : hist[t].kind = "I" /\ hist[t].ok

\* C21: in every reachable state, the intermediate states of failed and
\* repeated install and uninstall calls included, the installPath of the last
\* entry of every registry key is an existing directory that was moved into
\* place: never the staging path and never a path that has been removed.
C21_RegistryPointsAtDirectory ==
  \A k \in Keys :
    (regState = "ok" /\ registry[k].has /\ Len(registry[k].seq) > 0)
    => /\ LastInstallPath(k) \in CachePaths
       /\ IsDir(disk, LastInstallPath(k))

\* C22: two concurrent installPlugin calls for the same key that read the
\* same registry document and both return success leave the key with one new
\* entry only: the document the later writer writes is the one it read plus
\* its own entry, and the append of the earlier writer is lost.
SameKey(c, d) == c.name = d.name /\ c.mkt = d.mkt

C22_LostUpdate ==
  \A s, t \in Slots :
    LET c == calls[s]
        d == calls[t]
        k == Key(d.name, d.mkt)
    IN  (/\ s # t
         /\ Done(s, "I") /\ c.ok /\ Done(t, "I") /\ d.ok
         /\ SameKey(c, d)
         /\ c.rver = d.rver
         /\ c.wv < d.wv
         /\ d.wv = regWrites)
        => /\ c.seq0 = d.seq0
           /\ Len(registry[k].seq) = Len(d.seq0) + 1
           /\ SubSeq(registry[k].seq, 1, Len(d.seq0)) = d.seq0
           /\ registry[k].seq[Len(registry[k].seq)].installPath = d.path

\* both installs of bar@acme have returned success and the key, absent
\* before, holds one entry
C22_Witness ==
  \E s, t \in Slots :
    /\ s # t
    /\ Done(s, "I") /\ calls[s].ok /\ Done(t, "I") /\ calls[t].ok
    /\ SameKey(calls[s], calls[t])
    /\ calls[s].rver = calls[t].rver
    /\ calls[s].wv < calls[t].wv
    /\ calls[t].wv = regWrites
    /\ calls[t].seq0 = <<>>
    /\ Len(registry[Key(calls[t].name, calls[t].mkt)].seq) = 1
    /\ Len(hist) = 2

\* C23: mutations of different keys do not interfere. When two installPlugin
\* calls for distinct keys have both returned success, the registry holds both
\* keys, each with the entry of its call as its last; when an uninstall of one
\* key and an install of another have both returned success, the registry
\* holds the installed key with the entry of its call.
HoldsEntryOf(c) ==
  LET k == Key(c.name, c.mkt)
  IN  /\ registry[k].has
      /\ Len(registry[k].seq) > 0
      /\ registry[k].seq[Len(registry[k].seq)].installPath = c.path

C23_DistinctKeysIndependent ==
  \A s, t \in Slots :
    LET c == calls[s]
        d == calls[t]
    IN  (/\ s # t
         /\ Done(s, "I") /\ c.ok
         /\ d.kind \in {"I", "U"} /\ d.pc = "done" /\ d.ok
         /\ ~SameKey(c, d))
        => /\ HoldsEntryOf(c)
           /\ d.kind = "I" => HoldsEntryOf(d)

\* C24: uninstallPlugin for a key that is not in the registry, when its
\* registry write does not fail, returns success, removes no directory and
\* leaves the key set of the registry as it was; and such an uninstall that
\* directly follows a successful uninstall of the same key leaves the registry
\* as it found it.
KeySet(doc) == {k \in Keys : doc[k].has}

C24_UninstallAbsentKey ==
  \A s \in Slots :
    LET c == calls[s]
        k == Key(c.name, c.mkt)
    IN  /\ (Done(s, "U") /\ c.at # "writeReg" /\ c.reg0[1] = "ok" /\ ~c.reg0[2][k].has)
           => /\ c.ok
              /\ c.path = NoPath
              /\ KeySet(registry) = KeySet(c.reg0[2])
        /\ (/\ Done(s, "U") /\ c.at # "writeReg"
            /\ c.h0 >= 1
            /\ hist[c.h0].kind = "U" /\ hist[c.h0].ok
            /\ hist[c.h0].name = c.name /\ hist[c.h0].mkt = c.mkt)
           => /\ c.ok
              /\ c.path = NoPath
              /\ registry = c.reg0[2]

\* C25: in uninstallPlugin a failure to remove the directory is tolerated.
\* The step after the fs.rm is the registry write whether or not the removal
\* failed; the step after a completed write clears both cache slots and
\* returns success with the key deleted; and the only thing an uninstall ever
\* changes on disk is the directory named by the non-empty installPath of the
\* last entry of the key's sequence, in its fs.rm step.
C25_RemovalBestEffort ==
  [][\A s \in Slots :
       LET c == calls[s]
           k == Key(c.name, c.mkt)
           stepped == c.kind = "U" /\ calls'[s] # c
       IN  /\ stepped
              => \A p \in DOMAIN disk :
                   disk'[p] # disk[p]
                   => /\ c.pc = "rmDir"
                      /\ Len(c.seq0) > 0
                      /\ p = c.seq0[Len(c.seq0)].installPath
                      /\ p # NoPath
           /\ (stepped /\ c.pc = "rmDir")
              => /\ calls'[s].pc = "writeReg"
                 /\ registry' = registry
           /\ (stepped /\ c.pc = "finish")
              => /\ calls'[s].pc = "done" /\ calls'[s].ok
                 /\ ~registry[k].has
                 /\ pluginCache' = NoCache /\ mcpCache' = NoCache
  ]_vars

\* an uninstall of a key with two entries has returned success although the
\* fs.rm of the last entry's directory failed; the directory of the earlier
\* entry is still there, and the plugin slot is empty
C25_Witness ==
  \E s \in Slots :
    /\ Done(s, "U") /\ calls[s].ok
    /\ Len(calls[s].seq0) = 2
    /\ calls[s].path = calls[s].seq0[2].installPath
    /\ ~calls[s].removed
    /\ IsDir(disk, calls[s].seq0[1].installPath)
    /\ ~registry[Key(calls[s].name, calls[s].mkt)].has
    /\ pluginCache = NoCache

\* C26: reading the registry never raises. When installed_plugins.json is
\* missing, cannot be read or is not valid JSON, readInstalledPluginsJson
\* returns the default document with no keys (the call that reads it does not
\* fail at the read) and loadInstalledPluginPaths returns the empty Map.
NoRegistry == {"missing", "unreadable", "badjson"}

C26_ReadNeverRaises ==
  \A s \in Slots :
    LET c == calls[s] IN
    c.reg0[1] \in NoRegistry
    => /\ (c.kind = "U" /\ c.pc # "readReg")
          => /\ c.at # "readReg"
             /\ c.data = EmptyDoc
             /\ c.seq0 = <<>>
       /\ (c.kind = "D" /\ ~c.hit /\ c.pc # "load")
          => c.paths = NoPaths

\* a scan has returned with the empty Map although the file that cannot be
\* read holds an entry with an installPath
C26_Witness ==
  \E s \in Slots :
    /\ Done(s, "D")
    /\ ~calls[s].hit
    /\ calls[s].reg0[1] = "unreadable"
    /\ calls[s].paths = NoPaths
    /\ LoadInstalledPluginPaths(registry) # NoPaths

\* C27: uninstallPlugin returns a failure result whenever the registry read or
\* the registry write itself fails, and success in all other cases; after such
\* a failure the registry file is as it was before the call.
ReadFailed(c) == ~c.read \/ c.reg0[1] \in {"unreadable", "badjson", "unusable"}
WriteFailed(c) == c.at = "writeReg"

C27_UninstallFailsOnRegistryFailure ==
  \A s \in Slots :
    LET c == calls[s] IN
    Done(s, "U")
    => /\ c.ok <=> ~(ReadFailed(c) \/ WriteFailed(c))
       /\ ~c.ok => <<regState, registry>> = c.reg0

\* C28: an installPlugin or uninstallPlugin call for key k that runs alone,
\* whatever its outcome and whatever file operations fail during it, leaves
\* the sequence of every other key of the registry as it was before the call.
C28_OtherKeysUntouched ==
  \A s \in Slots :
    LET c == calls[s] IN
    (c.kind \in {"I", "U"} /\ c.pc = "done" /\ c.reg0[1] = "ok")
    => \A k \in Keys \ {Key(c.name, c.mkt)} : registry[k] = c.reg0[2][k]

\* C29: when the calls made so far are k successful installPlugin calls for
\* the same key, one after the other, whose clones declare the same version,
\* and the key held the k - 1 entries of the earlier ones when the last call
\* started (none when k = 1), the key has a sequence of exactly k entries that
\* all carry the same installPath, and exactly one versioned directory of the
\* plugin exists, holding what the last clone fetched.
VersionedDirs(mkt, name) == {v \in Versions : IsDir(disk, VersionedPath(mkt, name, v))}
SamePaths(entries, p) == \A i \in 1..Len(entries) : entries[i].installPath = p

RepeatedInstalls(s) ==
  LET c == calls[s] IN
  /\ Done(s, "I") /\ c.ok
  /\ c.h0 = Len(hist) - 1
  /\ \A i \in 1..Len(hist) :
       /\ hist[i].kind = "I" /\ hist[i].ok
       /\ Key(hist[i].name, hist[i].mkt) = Key(c.name, c.mkt)
       /\ hist[i].path = InstallPathOf(c)
  /\ c.reg0[1] = "ok" \/ (c.reg0[1] = "missing" /\ Len(hist) = 1)
  /\ Len(c.reg0[2][Key(c.name, c.mkt)].seq) = Len(hist) - 1
  /\ SamePaths(c.reg0[2][Key(c.name, c.mkt)].seq, InstallPathOf(c))

C29_RepeatedInstalls ==
  \A s \in Slots :
    LET c == calls[s]
        entries == registry[Key(c.name, c.mkt)].seq
    IN  RepeatedInstalls(s)
        => /\ Len(entries) = Len(hist)
           /\ SamePaths(entries, InstallPathOf(c))
           /\ VersionedDirs(c.mkt, c.name) = {c.version}
           /\ disk[InstallPathOf(c)].id = nclones

C29_Twice == \E s \in Slots : RepeatedInstalls(s) /\ Len(hist) >= 2

\* C30: only the last entry of a key's sequence counts for resolution. When
\* its installPath is empty or not an existing directory, a scan gives the
\* entries of that key the local path (string source resolving to a
\* directory) or no record at all (remote source, or no local directory),
\* whatever the earlier entries of the sequence point at.
EarlierPaths(k) ==
  {registry[k].seq[i].installPath : i \in 1..(Len(registry[k].seq) - 1)}
RecordsOf(res, it) == {j \in 1..Len(res) : res[j].source = ItemSource(it)}
LocalEntriesOf(it) ==
  {i \in 1..Len(WorkList) :
     ItemSource(WorkList[i]) = ItemSource(it) /\ LocalDirOf(WorkList[i])}

C30_LastEntryOnly ==
  \A s \in Slots :
    Done(s, "D") =>
      LET res == calls[s].res IN
      \A i \in 1..Len(WorkList) :
        LET it == WorkList[i] IN
        ~RegistryDirOf(it)
        => /\ \A j \in RecordsOf(res, it) : res[j].path = ItemLocal(it)
           /\ Cardinality(RecordsOf(res, it)) = Cardinality(LocalEntriesOf(it))

C30_Witness ==
  \E s \in Slots, i \in 1..Len(WorkList) :
    LET it == WorkList[i] IN
    /\ Done(s, "D")
    /\ ~calls[s].hit
    /\ it.entry.src = "local"
    /\ \E p \in EarlierPaths(ItemKey(it)) : ExistsOnDisk(p)
    /\ ~RegistryDirOf(it)
    /\ \E j \in RecordsOf(calls[s].res, it) : calls[s].res[j].path = ItemLocal(it)

\* C31: the record discoverPluginMcpServers gives a plugin is determined by
\* the plugin's .mcp.json alone. The chosen object is the document's
\* mcpServers value when that is a non-array object, else the whole document;
\* the validated map holds exactly the chosen object's entries whose value is
\* a non-null, non-array object; the plugin has a record, with its source
\* identifier and that map, if and only if the map is not empty; a plugin
\* whose .mcp.json is missing or does not parse has no record, and the other
\* plugin's record is what its own document gives.
ChosenObject(v) ==
  IF "mcpServers" \in DOMAIN v.m /\ v.m["mcpServers"].k = "obj" THEN v.m["mcpServers"] ELSE v
ValidatedMap(v) ==
  LET chosen == ChosenObject(v)
  IN  [n \in {x \in DOMAIN chosen.m : chosen.m[x].k = "obj"} |-> chosen.m[n]]
McpDocOf(n) == disk[<<"marketplaces", "acme", n>>].mcp
ExpectedRecord(n) ==
  IF McpDocOf(n).st = "ok" /\ DOMAIN ValidatedMap(McpDocOf(n).v) # {}
    THEN [has |-> TRUE, map |-> ValidatedMap(McpDocOf(n).v)]
    ELSE [has |-> FALSE, map |-> <<>>]
RecordCount(res, src) == Cardinality({j \in 1..Len(res) : res[j].pluginSource = src})

C31_ExtractionFilter ==
  \A s \in Slots :
    Done(s, "M")
    => \A n \in Names :
         /\ ServerMapOf(calls[s].res, <<"acme", ":", n>>) = ExpectedRecord(n)
         /\ RecordCount(calls[s].res, <<"acme", ":", n>>) <= 1

C31_Witness ==
  \E s \in Slots :
    /\ Done(s, "M")
    /\ ~calls[s].hit
    /\ McpDocOf("foo").st = "badjson"
    /\ McpDocOf("bar").st = "ok"
    /\ Len(calls[s].res) = 1
    /\ calls[s].res[1].pluginSource = <<"acme", ":", "bar">>
    /\ DOMAIN calls[s].res[1].mcpServers = {"serverA"}

\* C32: every result discoverPluginMcpServers() returns derives from a scan of
\* the marketplaces and the registry that completed less than CACHE_TTL_MS
\* before the call started.
C32_McpStaleness ==
  \A s \in Slots :
    LET c == calls[s] IN
    (Done(s, "M") /\ c.hit) => c.t0 - c.scan < CACHE_TTL_MS

\* C33: when a plugin is resolved through its registry entry and an
\* installPlugin call for its key has returned success = false, the key's
\* registry sequence is what it was and a scan still resolves the plugin
\* through it to an existing directory.
C33_FailedInstallKeepsInstall ==
  \A s \in Slots :
    LET c == calls[s] IN
    (Done(s, "I") /\ ~c.ok /\ c.was)
    => /\ regState = "ok"
       /\ registry[Key(c.name, c.mkt)] = c.reg0[2][Key(c.name, c.mkt)]
       /\ ResolvedByRegistry(c.mkt, c.name)

\* C34: the staging directory of a running installPlugin call is not touched
\* by another running installPlugin call for the same marketplace and plugin:
\* the directory a call renames into place holds the clone that call made, so
\* every install that returned success registered its own clone.
C34_StagingIsolation ==
  \A s \in Slots :
    LET c == calls[s] IN
    (Done(s, "I") /\ c.ok) => c.moved = c.cloned

\* C35: discovery is manifest-driven. Every record of a scan has the name of
\* an entry that a scanned manifest declares with a source, and that
\* manifest's own name as marketplace; a registry key that no manifest entry
\* matches gives no record, and no record has its install path, however valid
\* that path is.
Matched(k) ==
  \E i \in 1..Len(WorkList) : WorkList[i].entry.src # "none" /\ ItemKey(WorkList[i]) = k
RecordKey(r) == <<r.name, "@", r.marketplace>>

C35_ManifestDriven ==
  \A s \in Slots :
    Done(s, "D") =>
      LET res == calls[s].res IN
      /\ \A j \in 1..Len(res) : Matched(RecordKey(res[j]))
      /\ \A k \in Keys :
           ~Matched(k)
           => \A j \in 1..Len(res) :
                /\ RecordKey(res[j]) # k
                /\ LastInstallPath(k) # <<>> => res[j].path # LastInstallPath(k)

C35_Witness ==
  \E s \in Slots, k \in Keys, i \in 1..Len(WorkList), h \in 1..Len(hist) :
    /\ Done(s, "D")
    /\ ~calls[s].hit
    /\ hist[h].kind = "I" /\ hist[h].ok /\ Key(hist[h].name, hist[h].mkt) = k
    /\ ExistsOnDisk(LastInstallPath(k))
    /\ ~Matched(k)
    /\ WorkList[i].entry.name = k[1]
    /\ WorkList[i].entry.src = "url"
    /\ WorkList[i].mname = "beta"
    /\ \A j \in 1..Len(calls[s].res) : calls[s].res[j].name # k[1]

\* C36 as stated: after uninstallPlugin has returned success for a key, none
\* of the directories named by the entries the key's sequence held, the
\* latest or an earlier one, exists on disk.
RecordedPaths(c) ==
  LET entries == c.reg0[2][Key(c.name, c.mkt)].seq
  IN  IF c.reg0[1] = "ok"
        THEN {entries[i].installPath : i \in 1..Len(entries)} \ {NoPath}
        ELSE {}

InInstalledScan(it) == ScanEntry(it, InstalledPaths(regState, registry), disk) # <<>>
InAvailable(res, it) ==
  \E j \in 1..Len(res) : res[j] = [name |-> it.entry.name, marketplace |-> it.mname]

C37_Partition ==
  \A s \in Slots :
    Done(s, "A")
    => \A i \in 1..Len(WorkList) :
         WorkList[i].entry.src = "url"
         => (InAvailable(calls[s].res, WorkList[i]) <=> ~InInstalledScan(WorkList[i]))

\* C38: after any sequence of stdout, stderr and error events of a task, its
\* logBuffer holds at most MAX_LOG_LINES chunks, which are the most recent
\* ones in the order they arrived; and getRunningTasks(workspaceId) returns
\* exactly the tasks the runner holds for that workspace whose process has
\* emitted neither exit nor error.
MostRecent(n) ==
  LET m == IF n > MAX_LOG_LINES THEN MAX_LOG_LINES ELSE n
  IN  [i \in 1..m |-> n - m + i]
NotEnded(w) ==
  {t \in TaskIds :
     tasks[t].has /\ tasks[t].workspaceId = w /\ ~procs[t].exited /\ ~procs[t].errored}

C38_LogBufferBound ==
  /\ \A t \in TaskIds :
       /\ Len(tasks[t].logBuffer) <= MAX_LOG_LINES
       /\ tasks[t].logBuffer = MostRecent(procs[t].n)
  /\ \A w \in Workspaces :
       GetRunningTasks(w) = {[taskId |-> t, logBuffer |-> MostRecent(procs[t].n)] : t \in NotEnded(w)}

C38_Witness ==
  /\ procs["t1"].n > MAX_LOG_LINES
  /\ procs["t1"].errored
  /\ Len(tasks["t1"].logBuffer) = MAX_LOG_LINES
  /\ tasks["t1"].logBuffer[1] = procs["t1"].n - MAX_LOG_LINES + 1
  /\ tasks["t1"].workspaceId = "w1"
  /\ tasks["t2"].has /\ tasks["t2"].workspaceId = "w1" /\ ~procs["t2"].exited
  /\ GetRunningTasks("w1") = {[taskId |-> "t2", logBuffer |-> <<>>]}
  /\ GetRunningTasks("w2") = {}

\* C39: for every task run, in whatever order the callbacks of its child
\* arrive, exactly one exit event is emitted once the child has ended, and no
\* data event is emitted after an exit event, so that a subscriber that
\* completes on the exit event has received every chunk.
C39_ExitProtocol ==
  \A t \in TaskIds :
    /\ procs[t].exits <= 1
    /\ (procs[t].exited \/ procs[t].errored) => procs[t].exits = 1
    /\ ~procs[t].late

====
